---- MODULE Spec2Model ----
(***************************************************************************)
(* A model of the Intcode processor of bmatcuk/adventofcode2019 and of the *)
(* orchestration loops built on it (day23 network, day07 amplifiers).      *)
(*                                                                         *)
(* Memory is a sequence; the cell at address a is code[a + 1].  A usize    *)
(* that the source obtains by casting a negative i64 is kept as the        *)
(* negative number: every use of such an address (Vec::resize, indexing)   *)
(* panics in the source, and so it does here.                              *)
(***************************************************************************)
EXTENDS Integers, Sequences, FiniteSets, TLC

VARIABLES
    variant,        \* which source file's Intcode the instance is
    program,        \* the program as loaded (Intcode::load)
    code,           \* Intcode.code (day23), Intcode.0 (day07, day05)
    ip,             \* Intcode.ip (day23), Intcode.1 (day07/part2)
    relative_base,  \* Intcode.relative_base (day23)
    last,           \* history: the latest run call: its input, what it returned
                    \* (status; before is the status of the call before it),
                    \* the instance on entry (pre), the loop state at its end
                    \* (end, inputp, output) and at each iteration (log)
    fed,            \* history: every input sequence supplied so far, concatenated
    outs,           \* history: every output sequence returned so far, concatenated
    calls           \* history: run calls made

\* the state of a main function (day23/part2: the network; day07/part2: the
\* amplifier ring)
VARIABLES
    main,           \* which main runs: "day23", "day07p2", or "none"
    outcome,        \* "running"; "done" after the last println; else the Err
                    \* main returned ("InvalidOpcode", "InvalidOutputMode") or
                    \* "panic"
    printed,        \* the values println has written
    idx,            \* the index i of the for loop main is in
    stage,          \* the loop main is in
    computers,      \* day23 main: the instances
    queues,         \* day23 main: queues[i], the values computer i receives
    natx, naty,     \* day23 main: the packet the NAT holds
    prev_naty,      \* day23 main: the y the NAT delivered last
    idle,           \* day23 main: idle[i], the empty-handed turns in a row
    given,          \* history, day23 main: given[i], every value handed to
                    \* computer i so far, in order
    heard,          \* history, day23 main: the (x, y) of every packet sent to
                    \* address 255 so far, in order
    woken,          \* history, day23 main: the (x, y) the NAT has sent to
                    \* computer 0 so far, in order
    quiet,          \* history, day23 main: quiet[i], the rounds in a row (2
                    \* stands for 2 or more) in which the queue of computer i
                    \* was empty at its turn and it sent nothing
    phases,         \* day07 main: the PhaseSettings iterator (fields 0, 1, 2)
    phase_settings, \* day07 main: the permutation in use
    yielded,        \* history, day07 main: the items the iterator returned so
                    \* far, in order
    programs,       \* day07 main: the amplifiers
    input0,         \* day07 main: input[0]
    input1,         \* day07/part1 main: input[1], the signal
    final_output,   \* day07 main
    halted,         \* day07 main
    num_halted,     \* day07 main
    best            \* day07 main

instanceVars == << variant, program, code, ip, relative_base, last, fed, outs, calls >>

networkVars == << computers, queues, natx, naty, prev_naty, idle, given, heard,
                 woken, quiet >>

ringVars == << phases, phase_settings, yielded, programs, input0, input1,
               final_output, halted, num_halted, best >>

mainVars == << main, outcome, printed, idx, stage >>

vars == << instanceVars, mainVars, networkVars, ringVars >>

(***************************************************************************)
(* Bounds of the model.                                                    *)
(***************************************************************************)
\* instructions one run call may execute before the model stops following it
MaxSteps == 12
\* highest tape length the model follows (addresses 0 .. MaxTape - 1)
MaxTape == 12
\* largest magnitude of a cell value the model follows
MaxVal == 50000
\* run calls made on one instance
MaxCalls == 2
\* longest input sequence handed to one run call
MaxInput == 2
\* instructions in a generated program
MaxFrags == 2

\* the input values one instance is given over all its calls
MaxFed == 4

(***************************************************************************)
(* Rust integer arithmetic: / and % truncate toward zero.                  *)
(***************************************************************************)
RustDiv(a, b) == IF a >= 0 THEN a \div b ELSE -((-a) \div b)

RustRem(a, b) == a - b * RustDiv(a, b)

Abs(x) == IF x < 0 THEN -x ELSE x

Zeros(n) == [k \in 1..n |-> 0]

(***************************************************************************)
(* day23: ParameterMode and Opcode decoding.                               *)
(***************************************************************************)
\* a mode decoder that takes every unknown digit for Position
ParameterModeLax(value) ==
    CASE value = 1 -> "Immediate"
      [] value = 2 -> "Relative"
      [] OTHER -> "Position"

\* ParameterMode::try_from: "Invalid" stands for Err(InvalidParameterMode)
ParameterMode(value) ==
    CASE value = 0 -> "Position"
      [] value = 1 -> "Immediate"
      [] value = 2 -> "Relative"
      [] OTHER -> "Invalid"

modes2(value) ==
    << ParameterMode(RustRem(value, 10)),
       ParameterMode(RustRem(RustDiv(value, 10), 10)) >>

modes3(value) ==
    << ParameterMode(RustRem(value, 10)),
       ParameterMode(RustRem(RustDiv(value, 10), 10)),
       ParameterMode(RustRem(RustDiv(value, 100), 10)) >>

InvalidOpcode == [op |-> "InvalidOpcode", modes |-> << >>]

\* map_err(|_| InvalidOpcode(code)): a bad mode digit becomes InvalidOpcode
WithModes(name, modes) ==
    IF \E k \in 1..Len(modes) : modes[k] = "Invalid"
    THEN InvalidOpcode
    ELSE [op |-> name, modes |-> modes]

\* match code % 100 { ... }: o is code % 100, m is code / 100
OpcodeOf(value, o, m) ==
    CASE o = 1 -> WithModes("Add", modes3(m))
      [] o = 2 -> WithModes("Multiply", modes3(m))
      [] o = 3 -> WithModes("Input", << ParameterMode(m) >>)
      [] o = 4 -> WithModes("Output", << ParameterMode(m) >>)
      [] o = 5 -> WithModes("JumpIfTrue", modes2(m))
      [] o = 6 -> WithModes("JumpIfFalse", modes2(m))
      [] o = 7 -> WithModes("LessThan", modes3(m))
      [] o = 8 -> WithModes("Equal", modes3(m))
      [] o = 9 -> WithModes("RelativeBaseOffset", << ParameterMode(m) >>)
      [] o = 99 -> [op |-> "Halt", modes |-> << >>]
      [] OTHER -> InvalidOpcode

\* Opcode::try_from
Opcode(value) == OpcodeOf(value, RustRem(value, 100), RustDiv(value, 100))

(***************************************************************************)
(* day23: memory access.  An access record is [st, code, v]: st is "ok",   *)
(* "panic" (the source panics) or "bound" (the address lies beyond what    *)
(* the model follows); code is the tape after the access, v the value.     *)
(* A value computed once in the source and used several times (a let, a    *)
(* match scrutinee) is passed on as the last parameter of a helper         *)
(* operator.                                                               *)
(***************************************************************************)
Acc(st, tape, v) == [st |-> st, code |-> tape, v |-> v]

\* a resize that adds one cell too many
GrowFurther(tape, i) ==
    IF i >= Len(tape) THEN tape \o Zeros(i + 2 - Len(tape)) ELSE tape

\* Vec::resize(i + 1, 0) when i >= len
Grow(tape, i) ==
    IF i >= Len(tape) THEN tape \o Zeros(i + 1 - Len(tape)) ELSE tape

\* what an address does to an access: a negative number stands for the huge
\* usize a cast of a negative value gives, on which Vec::resize panics
Reach(tape, i) ==
    IF i < 0 THEN "panic"
    ELSE IF i >= Len(tape) /\ i >= MaxTape THEN "bound"
    ELSE "ok"

\* Intcode::read
read(tape, i) ==
    IF Reach(tape, i) # "ok" THEN Acc(Reach(tape, i), tape, 0)
    ELSE Acc("ok", Grow(tape, i), IF i >= Len(tape) THEN 0 ELSE tape[i + 1])

\* a write that cuts the tape off after the cell it stores
writeCuts(tape, i, v) ==
    IF Reach(tape, i) # "ok" THEN Acc(Reach(tape, i), tape, 0)
    ELSE Acc("ok", SubSeq([Grow(tape, i) EXCEPT ![i + 1] = v], 1, i + 1), v)

\* Intcode::write
write(tape, i, v) ==
    IF Reach(tape, i) # "ok" THEN Acc(Reach(tape, i), tape, 0)
    ELSE Acc("ok", [Grow(tape, i) EXCEPT ![i + 1] = v], v)

\* output_operand without the Immediate rejection: the parameter is taken
\* as an address
output_operandLax(tape, base, sp, mode) ==
    IF sp >= Len(tape) THEN [st |-> "panic", code |-> tape, v |-> 0]
    ELSE [st |-> "ok", code |-> tape,
          v |-> IF mode = "Relative" THEN tape[sp + 1] + base ELSE tape[sp + 1]]

\* Intcode::output_operand: st "InvalidOutputMode" stands for the Err
output_operand(tape, base, sp, mode) ==
    IF sp >= Len(tape) THEN Acc("panic", tape, 0)
    ELSE CASE mode = "Position" -> Acc("ok", tape, tape[sp + 1])
           [] mode = "Immediate" -> Acc("InvalidOutputMode", tape, 0)
           [] mode = "Relative" -> Acc("ok", tape, tape[sp + 1] + base)

\* an operand whose Relative mode leaves the relative base out
operandNoBase(tape, base, sp, mode) ==
    IF sp >= Len(tape) THEN Acc("panic", tape, 0)
    ELSE CASE mode = "Position" -> read(tape, tape[sp + 1])
           [] mode = "Immediate" -> Acc("ok", tape, tape[sp + 1])
           [] mode = "Relative" -> read(tape, tape[sp + 1])

\* Intcode::operand
operand(tape, base, sp, mode) ==
    IF sp >= Len(tape) THEN Acc("panic", tape, 0)
    ELSE CASE mode = "Position" -> read(tape, tape[sp + 1])
           [] mode = "Immediate" -> Acc("ok", tape, tape[sp + 1])
           [] mode = "Relative" -> read(tape, tape[sp + 1] + base)

\* the second operand of operands2, read after the first (a)
SecondOperand(a, base, sp, mode2, b) ==
    [st |-> b.st, code |-> b.code, v1 |-> a.v, v2 |-> b.v]

FirstOperand(a, base, sp, mode2) ==
    IF a.st # "ok" THEN [st |-> a.st, code |-> a.code, v1 |-> 0, v2 |-> 0]
    ELSE SecondOperand(a, base, sp, mode2, operand(a.code, base, sp + 1, mode2))

\* Intcode::operands2: [st, code, v1, v2]
operands2(tape, base, sp, mode1, mode2) ==
    FirstOperand(operand(tape, base, sp, mode1), base, sp, mode2)

(***************************************************************************)
(* day23: Intcode::run.  The loop state is                                 *)
(*   [code, ip, relative_base]  the fields of the instance,                *)
(*   [inputp, output, halted]   the locals of run,                         *)
(*   st   "run" while the loop goes on, "ret" after a break (the call      *)
(*        returns Ok((output, halted))), "InvalidOpcode" or                *)
(*        "InvalidOutputMode" after a ? returned the error, "panic" after  *)
(*        a panic, "bound" when the call leaves the bounds of the model,   *)
(*   log  history: the loop state at the start of every iteration.         *)
(***************************************************************************)
Stop(s, st, tape) == [s EXCEPT !.st = st, !.code = tape]

Plus(a, b) == a + b

Times(a, b) == a * b

\* a comparison that also holds of equal operands
LessOrSame(a, b) == IF a <= b THEN 1 ELSE 0

Less(a, b) == IF a < b THEN 1 ELSE 0

Same(a, b) == IF a = b THEN 1 ELSE 0

\* the value the arm of opcode f stores
Stored(f, a, b) ==
    CASE f = "Add" -> Plus(a, b)
      [] f = "Multiply" -> Times(a, b)
      [] f = "LessThan" -> Less(a, b)
      [] f = "Equal" -> Same(a, b)

\* self.write(op3, v); self.ip + 4
Store3Write(s, w) ==
    IF w.st # "ok" THEN Stop(s, w.st, s.code)
    ELSE [s EXCEPT !.code = w.code, !.ip = s.ip + 4]

\* let op3 = self.output_operand(self.ip + 3, mode3)?
Store3Target(s, ops, op3, v) ==
    IF op3.st # "ok" THEN Stop(s, op3.st, ops.code)
    ELSE IF Abs(v) > MaxVal THEN Stop(s, "bound", ops.code)
    ELSE Store3Write([s EXCEPT !.code = ops.code], write(ops.code, op3.v, v))

\* let (op1, op2) = self.operands2(self.ip + 1, mode1, mode2)
Store3Operands(s, modes, f, ops) ==
    IF ops.st # "ok" THEN Stop(s, ops.st, ops.code)
    ELSE Store3Target(s, ops,
                      output_operand(ops.code, s.relative_base, s.ip + 3, modes[3]),
                      Stored(f, ops.v1, ops.v2))

\* the Add, Multiply, LessThan and Equal arms: f names the opcode
Store3(s, modes, f) ==
    Store3Operands(s, modes, f,
        operands2(s.code, s.relative_base, s.ip + 1, modes[1], modes[2]))

\* the store of Input without inputp += 1
InputWriteStuck(s, w) ==
    IF w.st # "ok" THEN [s EXCEPT !.st = w.st]
    ELSE [s EXCEPT !.code = w.code, !.ip = s.ip + 2]

\* self.write(op, input[inputp]); inputp += 1; self.ip + 2
InputWrite(s, w) ==
    IF w.st # "ok" THEN Stop(s, w.st, s.code)
    ELSE [s EXCEPT !.code = w.code, !.inputp = s.inputp + 1, !.ip = s.ip + 2]

\* let op = self.output_operand(self.ip + 1, mode)?
InputTarget(s, input, op) ==
    IF op.st # "ok" THEN Stop(s, op.st, s.code)
    ELSE InputWrite(s, write(s.code, op.v, input[s.inputp + 1]))

\* an Input arm that steps over the instruction when it suspends
InputArmSkips(s, mode, input) ==
    IF s.inputp >= Len(input)
    THEN [s EXCEPT !.st = "ret", !.ip = s.ip + 2]
    ELSE InputTarget(s, input,
                     output_operand(s.code, s.relative_base, s.ip + 1, mode))

\* the Input arm
InputArm(s, mode, input) ==
    IF s.inputp >= Len(input)
    THEN [s EXCEPT !.st = "ret"]
    ELSE InputTarget(s, input,
                     output_operand(s.code, s.relative_base, s.ip + 1, mode))

\* an Output that hands its value to the caller at once
OutputPushYields(s, op) ==
    IF op.st # "ok" THEN [s EXCEPT !.st = op.st, !.code = op.code]
    ELSE [s EXCEPT !.code = op.code,
                   !.output = Append(s.output, op.v),
                   !.ip = s.ip + 2,
                   !.st = "ret"]

OutputPush(s, op) ==
    IF op.st # "ok" THEN Stop(s, op.st, op.code)
    ELSE [s EXCEPT !.code = op.code,
                   !.output = Append(s.output, op.v),
                   !.ip = s.ip + 2]

\* the Output arm
OutputArm(s, mode) ==
    OutputPush(s, operand(s.code, s.relative_base, s.ip + 1, mode))

\* a jump that is taken whatever its first operand
JumpToAlways(s, ifTrue, ops) ==
    IF ops.st # "ok" THEN Stop(s, ops.st, ops.code)
    ELSE [s EXCEPT !.code = ops.code, !.ip = ops.v2]

JumpTo(s, ifTrue, ops) ==
    IF ops.st # "ok" THEN Stop(s, ops.st, ops.code)
    ELSE [s EXCEPT !.code = ops.code,
                   !.ip = IF (ops.v1 # 0) = ifTrue THEN ops.v2 ELSE s.ip + 3]

\* the JumpIfTrue (ifTrue = TRUE: taken when op1 != 0) and JumpIfFalse arms
JumpArm(s, modes, ifTrue) ==
    JumpTo(s, ifTrue,
           operands2(s.code, s.relative_base, s.ip + 1, modes[1], modes[2]))

RelativeBaseAdd(s, op) ==
    IF op.st # "ok" THEN Stop(s, op.st, op.code)
    ELSE [s EXCEPT !.code = op.code,
                   !.relative_base = s.relative_base + op.v,
                   !.ip = s.ip + 2]

\* the RelativeBaseOffset arm
RelativeBaseArm(s, mode) ==
    RelativeBaseAdd(s, operand(s.code, s.relative_base, s.ip + 1, mode))

\* a Halt arm that steps over the instruction
HaltArmAdvances(s) == [s EXCEPT !.halted = TRUE, !.st = "ret", !.ip = s.ip + 1]

\* the Halt arm
HaltArm(s) == [s EXCEPT !.halted = TRUE, !.st = "ret"]


\* self.ip = match opcode { ... }
Dispatch(s, opcode, input) ==
    CASE opcode.op = "InvalidOpcode" -> Stop(s, "InvalidOpcode", s.code)
      [] opcode.op = "Add" -> Store3(s, opcode.modes, "Add")
      [] opcode.op = "Multiply" -> Store3(s, opcode.modes, "Multiply")
      [] opcode.op = "Input" -> InputArm(s, opcode.modes[1], input)
      [] opcode.op = "Output" -> OutputArm(s, opcode.modes[1])
      [] opcode.op = "JumpIfTrue" -> JumpArm(s, opcode.modes, TRUE)
      [] opcode.op = "JumpIfFalse" -> JumpArm(s, opcode.modes, FALSE)
      [] opcode.op = "LessThan" -> Store3(s, opcode.modes, "LessThan")
      [] opcode.op = "Equal" -> Store3(s, opcode.modes, "Equal")
      [] opcode.op = "RelativeBaseOffset" -> RelativeBaseArm(s, opcode.modes[1])
      [] opcode.op = "Halt" -> HaltArm(s)

\* let opcode: Opcode = self.read(self.ip).try_into()?
Fetch(s, input, f) ==
    IF f.st # "ok" THEN Stop(s, f.st, f.code)
    ELSE Dispatch([s EXCEPT !.code = f.code], Opcode(f.v), input)

\* an iteration that decodes the cell of the program as it was loaded
ExecStale(s, input) ==
    Fetch(s, input, Acc("ok", s.code, read(program, s.ip).v))

\* one iteration of the loop of run
Exec(s, input) == Fetch(s, input, read(s.code, s.ip))

(***************************************************************************)
(* day07 and day05: the earlier Intcode (i32 cells, no relative mode, a    *)
(* fixed-size tape indexed directly).  The three files share the decoder   *)
(* and every arm of run but Input and Halt.                                *)
(***************************************************************************)
\* ParameterMode::try_from (day07)
ParameterModeAmp(value) ==
    CASE value = 0 -> "Position"
      [] value = 1 -> "Immediate"
      [] OTHER -> "Invalid"

modes2Amp(value) ==
    << ParameterModeAmp(RustRem(value, 10)),
       ParameterModeAmp(RustRem(RustDiv(value, 10), 10)) >>

OpcodeAmpOf(value, o, m) ==
    CASE o = 1 -> WithModes("Add", modes2Amp(m))
      [] o = 2 -> WithModes("Multiply", modes2Amp(m))
      [] o = 3 -> WithModes("Input", << ParameterModeAmp(m) >>)
      [] o = 4 -> WithModes("Output", << ParameterModeAmp(m) >>)
      [] o = 5 -> WithModes("JumpIfTrue", modes2Amp(m))
      [] o = 6 -> WithModes("JumpIfFalse", modes2Amp(m))
      [] o = 7 -> WithModes("LessThan", modes2Amp(m))
      [] o = 8 -> WithModes("Equal", modes2Amp(m))
      [] o = 99 -> [op |-> "Halt", modes |-> << >>]
      [] OTHER -> InvalidOpcode

\* Opcode::try_from (day07)
OpcodeAmp(value) == OpcodeAmpOf(value, RustRem(value, 100), RustDiv(value, 100))

\* self.0[i]: an index outside the Vec panics
IndexAmp(tape, i) ==
    IF i < 0 \/ i >= Len(tape) THEN [st |-> "panic", v |-> 0]
    ELSE [st |-> "ok", v |-> tape[i + 1]]

\* Intcode::operand (day07)
operandAmp(tape, sp, mode) ==
    IF sp < 0 \/ sp >= Len(tape) THEN [st |-> "panic", v |-> 0]
    ELSE IF mode = "Immediate" THEN [st |-> "ok", v |-> tape[sp + 1]]
    ELSE IndexAmp(tape, tape[sp + 1])

PairAmp(a, b) ==
    [st |-> IF a.st # "ok" THEN a.st ELSE b.st, v1 |-> a.v, v2 |-> b.v]

\* Intcode::operands2 (day07): [st, v1, v2]
operands2Amp(tape, sp, mode1, mode2) ==
    PairAmp(operandAmp(tape, sp, mode1), operandAmp(tape, sp + 1, mode2))

\* self.0[op] = v, then the arm's value next becomes ip
AssignAmp(s, op, v, next) ==
    IF op < 0 \/ op >= Len(s.code) THEN [s EXCEPT !.st = "panic"]
    ELSE [s EXCEPT !.code = [s.code EXCEPT ![op + 1] = v], !.ip = next]

Store3AmpWrite(s, ops, op3, v) ==
    IF ops.st # "ok" \/ op3.st # "ok" THEN [s EXCEPT !.st = "panic"]
    ELSE IF Abs(v) > MaxVal THEN [s EXCEPT !.st = "bound"]
    ELSE AssignAmp(s, op3.v, v, s.ip + 4)

Store3AmpOperands(s, f, ops, op3) ==
    Store3AmpWrite(s, ops, op3, IF ops.st = "ok" THEN Stored(f, ops.v1, ops.v2) ELSE 0)

\* the Add, Multiply, LessThan and Equal arms (operands3 with the third
\* operand read as Immediate)
Store3Amp(s, modes, f) ==
    Store3AmpOperands(s, f,
        operands2Amp(s.code, s.ip + 1, modes[1], modes[2]),
        operandAmp(s.code, s.ip + 3, "Immediate"))

InputAmpWrite(s, input, op) ==
    IF op.st # "ok" \/ s.inputp >= Len(input)
    THEN [s EXCEPT !.st = "panic"]
    ELSE AssignAmp([s EXCEPT !.inputp = s.inputp + 1],
                   op.v, input[s.inputp + 1], s.ip + 2)

\* the Input arm: day07/part2 suspends when the input is used up
\* (suspends = TRUE); day07/part1 and day05/part2 index input[inputp]
InputArmAmp(s, input, suspends) ==
    IF suspends /\ s.inputp >= Len(input)
    THEN [s EXCEPT !.st = "ret"]
    ELSE InputAmpWrite(s, input, operandAmp(s.code, s.ip + 1, "Immediate"))

OutputAmpPush(s, op) ==
    IF op.st # "ok" THEN [s EXCEPT !.st = "panic"]
    ELSE [s EXCEPT !.output = Append(s.output, op.v), !.ip = s.ip + 2]

\* the Output arm
OutputArmAmp(s, mode) == OutputAmpPush(s, operandAmp(s.code, s.ip + 1, mode))

JumpAmpTo(s, ifTrue, ops) ==
    IF ops.st # "ok" THEN [s EXCEPT !.st = "panic"]
    ELSE [s EXCEPT !.ip = IF (ops.v1 # 0) = ifTrue THEN ops.v2 ELSE s.ip + 3]

\* the JumpIfTrue and JumpIfFalse arms
JumpArmAmp(s, modes, ifTrue) ==
    JumpAmpTo(s, ifTrue, operands2Amp(s.code, s.ip + 1, modes[1], modes[2]))

DispatchAmp(s, opcode, input, suspends) ==
    CASE opcode.op = "InvalidOpcode" -> [s EXCEPT !.st = "InvalidOpcode"]
      [] opcode.op = "Add" -> Store3Amp(s, opcode.modes, "Add")
      [] opcode.op = "Multiply" -> Store3Amp(s, opcode.modes, "Multiply")
      [] opcode.op = "Input" -> InputArmAmp(s, input, suspends)
      [] opcode.op = "Output" -> OutputArmAmp(s, opcode.modes[1])
      [] opcode.op = "JumpIfTrue" -> JumpArmAmp(s, opcode.modes, TRUE)
      [] opcode.op = "JumpIfFalse" -> JumpArmAmp(s, opcode.modes, FALSE)
      [] opcode.op = "LessThan" -> Store3Amp(s, opcode.modes, "LessThan")
      [] opcode.op = "Equal" -> Store3Amp(s, opcode.modes, "Equal")
      [] opcode.op = "Halt" -> HaltArm(s)

\* one iteration of the loop of run (day07, day05)
ExecAmp(s, input, suspends) ==
    IF s.ip < 0 \/ s.ip >= Len(s.code) THEN [s EXCEPT !.st = "panic"]
    ELSE DispatchAmp(s, OpcodeAmp(s.code[s.ip + 1]), input, suspends)

(***************************************************************************)
(* The run call of each variant of the processor.                          *)
(*   "day23"    src/day23/src/bin/part2.rs                                 *)
(*   "day07p2"  src/day07/src/bin/part2.rs                                 *)
(*   "day07p1"  src/day07/src/bin/part1.rs                                 *)
(*   "day05p2"  src/day05/src/bin/part2.rs                                 *)
(***************************************************************************)
Variants == {"day23", "day07p2", "day07p1", "day05p2"}

\* the name of the instruction at ip, "None" when ip is outside the tape
OpAt(which, tape, at) ==
    IF at < 0 \/ at >= Len(tape) THEN "None"
    ELSE IF which = "day23" THEN Opcode(tape[at + 1]).op
    ELSE OpcodeAmp(tape[at + 1]).op

\* the history entry of one iteration
Snap(which, s) ==
    [code |-> s.code, ip |-> s.ip, relative_base |-> s.relative_base,
     inputp |-> s.inputp, nout |-> Len(s.output),
     op |-> OpAt(which, s.code, s.ip)]

Logged(t, entry) == [t EXCEPT !.log = Append(t.log, entry)]

Step(which, s, input) ==
    Logged(CASE which = "day23" -> Exec(s, input)
             [] which = "day07p2" -> ExecAmp(s, input, TRUE)
             [] OTHER -> ExecAmp(s, input, FALSE),
           Snap(which, s))

RECURSIVE RunLoop(_, _, _, _)
RunLoop(which, s, input, fuel) ==
    IF s.st # "run" THEN s
    ELSE IF fuel = 0 THEN [s EXCEPT !.st = "bound"]
    ELSE RunLoop(which, Step(which, s, input), input, fuel - 1)

\* a call that always starts at address 0
EnterAtZero(which, m) ==
    [code |-> m.code, ip |-> 0, relative_base |-> m.relative_base,
     inputp |-> 0, output |-> << >>, halted |-> FALSE, st |-> "run",
     log |-> << >>]

\* the loop state on entry to run: m is the instance [code, ip, relative_base]
Enter(which, m) ==
    [code |-> m.code,
     ip |-> IF which \in {"day23", "day07p2"} THEN m.ip ELSE 0,
     relative_base |-> m.relative_base,
     inputp |-> 0, output |-> << >>, halted |-> FALSE, st |-> "run",
     log |-> << >>]

\* run: the loop state when the call ends
run(which, m, input) == RunLoop(which, Enter(which, m), input, MaxSteps)

\* run followed for as many instructions as MaxCalls calls may execute
runLong(which, m, input) ==
    RunLoop(which, Enter(which, m), input, MaxSteps * MaxCalls)

\* the instance after the call.  day23 assigns self.ip after every completed
\* instruction; day07/part2 keeps ip in a local and stores it in self.1 only
\* on suspension and on Halt; day07/part1 and day05/part2 have no ip field.
After(which, m, r) ==
    [code |-> r.code,
     ip |-> CASE which = "day23" -> r.ip
              [] which = "day07p2" -> IF r.st = "ret" THEN r.ip ELSE m.ip
              [] OTHER -> m.ip,
     relative_base |-> r.relative_base]

\* what the caller sees
Status(r) ==
    CASE r.st = "ret" -> IF r.halted THEN "halted" ELSE "suspended"
      [] OTHER -> r.st

(***************************************************************************)
(* Programs and inputs of the single-instance specification.               *)
(***************************************************************************)
Fragments ==
    { << 3, 9 >>, << 203, 9 >>, << 103, 9 >>,
      << 4, 9 >>, << 104, 7 >>,
      << 1101, 1, 1, 9 >>, << 10001, 9, 10, 0 >>,
      << 1005, 9, 0 >>, << 301, 0, 0, 0 >> }

RECURSIVE Concat(_)
Concat(ss) == IF ss = << >> THEN << >> ELSE Head(ss) \o Concat(Tail(ss))

FragmentLists == UNION { [1..n -> Fragments] : n \in 0..MaxFrags }

\* the examples of the module docs and of the specification, and programs
\* for the cases the generated ones do not reach
Examples ==
    { << 1002, 4, 3, 4, 33 >>,
      << 3, 0, 4, 0, 99 >>,
      << 3, 9, 8, 9, 10, 9, 4, 9, 99, -1, 8 >>,
      << 3, 9, 7, 9, 10, 9, 4, 9, 99, -1, 8 >>,
      << 4, 5, 3, 8, 99 >>,
      << 3, 12, 6, 12, 15, 1, 13, 14, 13, 4, 13, 99, -1, 0, 1, 9 >>,
      << 3, 3, 1108, -1, 8, 3, 4, 3, 99 >>,
      << 3, 11, 4, 11, 1005, 11, 0, 99, 0, 0, 0, 0 >>,
      << 3, 13, 3, 14, 1, 13, 14, 13, 4, 13, 1105, 1, 0, 0, 0 >>,
      << 109, 5, 203, 4, 204, 4, 99 >>,
      << 109, 5, 203, 4, 11101, 1, 1, 0, 99 >>,
      << 3, 1, 99 >>, << 4, -1, 99 >>, << 1, 0, 0 >>, << 1105, 1, -7 >>,
      << 0 >>, << 55 >>, << -1 >>, << -99 >>, << 1003, 9 >>, << 199 >> }

Pad(p, n) == IF Len(p) >= n THEN p ELSE p \o Zeros(n - Len(p))

\* generated programs end in Halt; the fixed-size tape of day07 and day05
\* is given its data cells, the growable tape of day23 is not
Generated(which) ==
    IF which = "day23"
    THEN { Concat(fs) \o << 99 >> : fs \in FragmentLists }
    ELSE { Pad(Concat(fs) \o << 99 >>, MaxTape) : fs \in FragmentLists }

Programs(which) == Examples \cup Generated(which)

InputVals == {0, 8}

Inputs == UNION { [1..n -> InputVals] : n \in 0..MaxInput }

(***************************************************************************)
(* One Intcode instance, driven by run calls.                              *)
(***************************************************************************)
Fresh ==
    [input |-> << >>, status |-> "fresh", before |-> "fresh",
     output |-> << >>, inputp |-> 0,
     pre |-> [code |-> << >>, ip |-> 0, relative_base |-> 0],
     end |-> [code |-> << >>, ip |-> 0, relative_base |-> 0],
     log |-> << >>]

\* no network
NoNetwork ==
    /\ computers = << >>
    /\ queues = << >>
    /\ natx = 0
    /\ naty = 0
    /\ prev_naty = 0
    /\ idle = << >>
    /\ given = << >>
    /\ heard = << >>
    /\ woken = << >>
    /\ quiet = << >>

\* no amplifier ring
NoRing ==
    /\ phases = << >>
    /\ phase_settings = << >>
    /\ yielded = << >>
    /\ programs = << >>
    /\ input0 = 0
    /\ input1 = 0
    /\ final_output = << >>
    /\ halted = << >>
    /\ num_halted = 0
    /\ best = 0

\* no main: an instance on its own
NoMain ==
    /\ main = "none"
    /\ outcome = "running"
    /\ printed = << >>
    /\ idx = 0
    /\ stage = "none"
    /\ NoNetwork
    /\ NoRing

Init ==
    /\ NoMain
    /\ variant \in Variants
    /\ program \in Programs(variant)
    /\ code = program
    /\ ip = 0
    /\ relative_base = 0
    /\ last = Fresh
    /\ fed = << >>
    /\ outs = << >>
    /\ calls = 0

\* the callers of day07/part1 and day05/part2 run each instance once
CallsAllowed == IF variant \in {"day07p1", "day05p2"} THEN 1 ELSE MaxCalls

Self == [code |-> code, ip |-> ip, relative_base |-> relative_base]

\* history: what is kept of a run call on instance m
CallRecord(input, r, m) ==
    [input |-> input, status |-> Status(r), before |-> last.status,
     output |-> r.output, inputp |-> r.inputp, pre |-> m,
     end |-> [code |-> r.code, ip |-> r.ip, relative_base |-> r.relative_base],
     log |-> r.log]

\* one run call, from entry to return, error or panic.  A caller only calls
\* again after an Ok: an Err ends main, a panic ends the process.
Returned(input, r, m) ==
    /\ r.st # "bound"
    /\ code' = m.code
    /\ ip' = m.ip
    /\ relative_base' = m.relative_base
    /\ last' = CallRecord(input, r, Self)
    /\ fed' = fed \o input
    /\ outs' = IF r.st = "ret" THEN outs \o r.output ELSE outs

Run(input) ==
    /\ calls < CallsAllowed
    /\ Len(fed) + Len(input) <= MaxFed
    /\ last.status \in {"fresh", "suspended", "halted"}
    /\ \E r \in {run(variant, Self, input)} :
           Returned(input, r, After(variant, Self, r))
    /\ calls' = calls + 1
    /\ UNCHANGED << variant, program, mainVars, networkVars, ringVars >>

Next == \E input \in Inputs : Run(input)

Spec == Init /\ [][Next]_vars

(***************************************************************************)
(* main of day23/part2: the network.  Every computer runs a copy of the    *)
(* program; main gives each in turn what its queue holds, routes the       *)
(* packets it sends, and lets the NAT wake computer 0 when all are idle.   *)
(***************************************************************************)
\* the source has COMPUTERS = 50; the model runs a smaller network
COMPUTERS == 2

\* the address whose packets the NAT keeps
NatAddress == 255

\* naty starts as std::i64::MIN: below every value a program of the model
\* computes
NatyUnset == -(MaxVal + 1)

\* the programs the network is run on
NetPrograms ==
    { \* sends 7,8 to the NAT, then reads for ever
      <<3,13, 104,255, 104,7, 104,8, 3,13, 1105,1,8, 0>>,
      \* sends 5,6 to computer 1; after the next value it receives it sends
      \* 9,9 to computer 0 and meets the invalid opcode 55
      <<3,17, 104,1, 104,5, 104,6, 3,17, 104,0, 104,9, 104,9, 55, 0>>,
      \* sends 5,6 to the NAT, then writes through an Immediate parameter
      <<3,15, 104,255, 104,5, 104,6, 3,15, 104,0, 11101,1,1,0, 0>>,
      \* halts after its address
      <<3,3, 99, 0>>,
      \* sends 1,2 to computer 0, then reads for ever
      <<3,13, 104,0, 104,1, 104,2, 3,13, 1105,1,8, 0>>,
      \* sends 3,4 to computer 2, then reads for ever
      <<3,13, 104,2, 104,3, 104,4, 3,13, 1105,1,8, 0>>,
      \* sends one value of a packet and halts
      <<3,5, 104,1, 99, 0>>,
      \* computer 0 sends 3,4 to computer 1; every computer sends each
      \* packet it receives on to the NAT
      <<3,31, 1005,31,11, 104,1, 104,3, 104,4,
        3,32, 1008,32,-1,33, 1005,33,11, 3,34, 104,255, 4,32, 4,34,
        1105,1,11, 0, 0, 0, 0, 0>>,
      \* sends 5,6 and 7,8 to computer 1 and halts
      <<3,15, 104,1, 104,5, 104,6, 104,1, 104,7, 104,8, 99, 0>>,
      \* sends 1,2 and 3,4 to the NAT, then reads for ever
      <<3,19, 104,255, 104,1, 104,2, 104,255, 104,3, 104,4, 3,19,
        1105,1,14, 0>>,
      \* sends 1,2 to the NAT after every value it reads
      <<3,12, 104,255, 104,1, 104,2, 1105,1,0, 0, 0>>,
      \* sends 7,0 to the NAT, then reads for ever
      <<3,13, 104,255, 104,7, 104,0, 3,13, 1105,1,8, 0>>,
      \* meets an invalid opcode at once
      <<55>>,
      \* sends -1,-1 to computer 0 after every value it reads
      <<3,11, 104,0, 104,-1, 104,-1, 1105,1,0, 0>>,
      \* reads its address, then jumps to a negative address
      <<3,5, 1105,1,-7, 0>> }

\* program.clone()
Clone(p) == [code |-> p, ip |-> 0, relative_base |-> 0]

\* a network in which every computer is told it is computer 0
NetInitSameAddress ==
    /\ main = "day23"
    /\ outcome = "running"
    /\ printed = << >>
    /\ idx = 0
    /\ stage = "round"
    /\ program \in NetPrograms
    /\ computers = [i \in 1..COMPUTERS |-> Clone(program)]
    /\ queues = [i \in 1..COMPUTERS |-> << 0 >>]
    /\ natx = 0
    /\ naty = NatyUnset
    /\ prev_naty = 0
    /\ idle = [i \in 1..COMPUTERS |-> 0]
    /\ given = [i \in 1..COMPUTERS |-> << >>]
    /\ heard = << >>
    /\ woken = << >>
    /\ quiet = [i \in 1..COMPUTERS |-> 0]
    /\ NoRing
    /\ variant = "day23"
    /\ code = << >>
    /\ ip = 0
    /\ relative_base = 0
    /\ last = Fresh
    /\ fed = << >>
    /\ outs = << >>
    /\ calls = 0

NetInit ==
    /\ main = "day23"
    /\ outcome = "running"
    /\ printed = << >>
    /\ idx = 0
    /\ stage = "round"
    /\ program \in NetPrograms
    /\ computers = [i \in 1..COMPUTERS |-> Clone(program)]
    /\ queues = [i \in 1..COMPUTERS |-> << i - 1 >>]
    /\ natx = 0
    /\ naty = NatyUnset
    /\ prev_naty = 0
    /\ idle = [i \in 1..COMPUTERS |-> 0]
    /\ given = [i \in 1..COMPUTERS |-> << >>]
    /\ heard = << >>
    /\ woken = << >>
    /\ quiet = [i \in 1..COMPUTERS |-> 0]
    /\ NoRing
    /\ variant = "day23"
    /\ code = << >>
    /\ ip = 0
    /\ relative_base = 0
    /\ last = Fresh
    /\ fed = << >>
    /\ outs = << >>
    /\ calls = 0

\* queues[i].push(-1) when the queue is empty
Fed(q) == IF q = << >> THEN << -1 >> ELSE q

Routing(i, q) ==
    [st |-> "ok", queues |-> [queues EXCEPT ![i + 1] = q],
     natx |-> natx, naty |-> naty]

\* a routing whose NAT keeps the first packet it is sent
RECURSIVE RouteKeepsFirst(_, _, _)
RouteKeepsFirst(output, j, acc) ==
    IF j >= Len(output) THEN acc
    ELSE IF output[j + 1] \in 0..(COMPUTERS - 1)
    THEN IF j + 2 >= Len(output)
         THEN [acc EXCEPT !.st = "panic"]
         ELSE RouteKeepsFirst(output, j + 3,
                    [acc EXCEPT !.queues[output[j + 1] + 1] =
                                    @ \o << output[j + 2], output[j + 3] >>])
    ELSE IF output[j + 1] = NatAddress
    THEN IF j + 2 >= Len(output)
         THEN [acc EXCEPT !.st = "panic"]
         ELSE RouteKeepsFirst(output, j + 3,
                    IF acc.naty # NatyUnset THEN acc
                    ELSE [acc EXCEPT !.natx = output[j + 2],
                                     !.naty = output[j + 3]])
    ELSE RouteKeepsFirst(output, j + 3, acc)

\* a routing that puts each packet in front of what the queue holds
RECURSIVE RoutePrepends(_, _, _)
RoutePrepends(output, j, acc) ==
    IF j >= Len(output) THEN acc
    ELSE IF output[j + 1] \in 0..(COMPUTERS - 1)
    THEN IF j + 2 >= Len(output)
         THEN [acc EXCEPT !.st = "panic"]
         ELSE RoutePrepends(output, j + 3,
                    [acc EXCEPT !.queues[output[j + 1] + 1] =
                                    << output[j + 2], output[j + 3] >> \o @])
    ELSE IF output[j + 1] = NatAddress
    THEN IF j + 2 >= Len(output)
         THEN [acc EXCEPT !.st = "panic"]
         ELSE RoutePrepends(output, j + 3,
                    [acc EXCEPT !.natx = output[j + 2], !.naty = output[j + 3]])
    ELSE RoutePrepends(output, j + 3, acc)

\* for j in (0..output.len()).step_by(3): output[j + 1] and output[j + 2]
\* are indexed only for an address main knows, and panic past the end
RECURSIVE Route(_, _, _)
Route(output, j, acc) ==
    IF j >= Len(output) THEN acc
    ELSE IF output[j + 1] \in 0..(COMPUTERS - 1)
    THEN IF j + 2 >= Len(output)
         THEN [acc EXCEPT !.st = "panic"]
         ELSE Route(output, j + 3,
                    [acc EXCEPT !.queues[output[j + 1] + 1] =
                                    @ \o << output[j + 2], output[j + 3] >>])
    ELSE IF output[j + 1] = NatAddress
    THEN IF j + 2 >= Len(output)
         THEN [acc EXCEPT !.st = "panic"]
         ELSE Route(output, j + 3,
                    [acc EXCEPT !.natx = output[j + 2], !.naty = output[j + 3]])
    ELSE Route(output, j + 3, acc)

\* a main that routes what the failed call had written before it ends
NetFailRoutes(i, q, r) ==
    /\ outcome' = r.st
    /\ queues' = Route(r.output, 0, Routing(i, q)).queues
    /\ natx' = Route(r.output, 0, Routing(i, q)).natx
    /\ naty' = Route(r.output, 0, Routing(i, q)).naty
    /\ UNCHANGED << idle, idx >>

\* computers[i].run(&queues[i])? returned Err, or panicked: main ends
NetFail(i, q, r) ==
    /\ outcome' = r.st
    /\ queues' = [queues EXCEPT ![i + 1] = q]
    /\ UNCHANGED << natx, naty, idle, idx >>

\* the run returned Ok: route, count the idle turn, clear the queue
NetRouted(i, routed) ==
    /\ natx' = routed.natx
    /\ naty' = routed.naty
    /\ IF routed.st = "panic"
       THEN /\ outcome' = "panic"
            /\ queues' = routed.queues
            /\ UNCHANGED << idle, idx >>
       ELSE /\ outcome' = outcome
            /\ queues' = [routed.queues EXCEPT ![i + 1] = << >>]
            /\ idle' = [idle EXCEPT ![i + 1] =
                            IF routed.queues[i + 1][1] = -1 THEN @ + 1 ELSE 0]
            /\ idx' = idx + 1

\* history: the packets for address 255 among the whole triples of output
RECURSIVE HeardIn(_, _)
HeardIn(output, j) ==
    IF j + 2 >= Len(output) THEN << >>
    ELSE IF output[j + 1] = NatAddress
    THEN << << output[j + 2], output[j + 3] >> >> \o HeardIn(output, j + 3)
    ELSE HeardIn(output, j + 3)

\* history: the quiet rounds in a row after a turn with this queue and result
QuietAfter(n, q, r) ==
    IF q = << >> /\ r.st = "ret" /\ r.output = << >>
    THEN (IF n < 2 THEN n + 1 ELSE 2)
    ELSE 0

\* a network whose computers all work on one memory
NetReturnedShared(i, q, r) ==
    /\ r.st # "bound"
    /\ last' = CallRecord(q, r, computers[i + 1])
    /\ given' = [given EXCEPT ![i + 1] = @ \o q]
    /\ heard' = IF r.st = "ret" THEN heard \o HeardIn(r.output, 0) ELSE heard
    /\ quiet' = [quiet EXCEPT ![i + 1] = QuietAfter(@, queues[i + 1], r)]
    /\ computers' = [k \in 1..COMPUTERS |-> After("day23", computers[i + 1], r)]
    /\ IF r.st = "ret"
       THEN NetRouted(i, Route(r.output, 0, Routing(i, q)))
       ELSE NetFail(i, q, r)

NetReturned(i, q, r) ==
    /\ r.st # "bound"
    /\ last' = CallRecord(q, r, computers[i + 1])
    /\ given' = [given EXCEPT ![i + 1] = @ \o q]
    /\ heard' = IF r.st = "ret" THEN heard \o HeardIn(r.output, 0) ELSE heard
    /\ quiet' = [quiet EXCEPT ![i + 1] = QuietAfter(@, queues[i + 1], r)]
    /\ computers' = [computers EXCEPT ![i + 1] = After("day23", @, r)]
    /\ IF r.st = "ret"
       THEN NetRouted(i, Route(r.output, 0, Routing(i, q)))
       ELSE NetFail(i, q, r)

InRound ==
    /\ main = "day23"
    /\ outcome = "running"
    /\ idx < COMPUTERS

AfterRound ==
    /\ main = "day23"
    /\ outcome = "running"
    /\ idx = COMPUTERS

AllIdle == \A i \in 1..COMPUTERS : idle[i] >= 2

\* if queues[i].is_empty() && idle[i] >= 2 { continue }
NetSkip ==
    /\ InRound
    /\ queues[idx + 1] = << >>
    /\ idle[idx + 1] >= 2
    /\ idx' = idx + 1
    /\ quiet' = [quiet EXCEPT ![idx + 1] = IF @ < 2 THEN @ + 1 ELSE 2]
    /\ UNCHANGED << instanceVars, main, outcome, printed, stage, computers,
                    queues, natx, naty, prev_naty, idle, given, heard, woken,
                    ringVars >>

\* the turn of computer idx
NetTurn ==
    /\ InRound
    /\ ~(queues[idx + 1] = << >> /\ idle[idx + 1] >= 2)
    /\ \E r \in {run("day23", computers[idx + 1], Fed(queues[idx + 1]))} :
           NetReturned(idx, Fed(queues[idx + 1]), r)
    /\ UNCHANGED << variant, program, code, ip, relative_base, fed, outs, calls,
                    main, printed, stage, prev_naty, woken, ringVars >>

\* the round ends with a computer not idle
NetRoundEnd ==
    /\ AfterRound
    /\ ~AllIdle
    /\ idx' = 0
    /\ UNCHANGED << instanceVars, main, outcome, printed, stage, networkVars,
                    ringVars >>

\* all idle: the NAT sends its packet to computer 0
NetNatInject ==
    /\ AfterRound
    /\ AllIdle
    /\ naty # prev_naty
    /\ queues' = [queues EXCEPT ![1] = @ \o << natx, naty >>]
    /\ prev_naty' = naty
    /\ woken' = Append(woken, << natx, naty >>)
    /\ idx' = 0
    /\ UNCHANGED << instanceVars, main, outcome, printed, stage, computers,
                    natx, naty, idle, given, heard, quiet, ringVars >>

\* all idle and the same y as last time: print it and leave the loop
NetNatReport ==
    /\ AfterRound
    /\ AllIdle
    /\ naty = prev_naty
    /\ printed' = Append(printed, naty)
    /\ outcome' = "done"
    /\ UNCHANGED << instanceVars, main, idx, stage, networkVars, ringVars >>

NetNext == NetSkip \/ NetTurn \/ NetRoundEnd \/ NetNatInject \/ NetNatReport

SpecNet == NetInit /\ [][NetNext]_vars

(***************************************************************************)
(* main of day07/part2: the amplifier ring.  For each permutation of the   *)
(* phase settings main clones the program once per amplifier, primes each  *)
(* copy with its phase, and passes the signal round the ring until every   *)
(* amplifier has halted.                                                   *)
(***************************************************************************)
\* the source has AMPLIFIERS = 5; the model runs a shorter ring
AMPLIFIERS == 2

\* PhaseSettings::permutations(): p, c and i are the fields 0, 1 and 2
permutations ==
    [p |-> [k \in 1..AMPLIFIERS |-> 4 + k],
     c |-> [k \in 1..AMPLIFIERS |-> 0],
     i |-> AMPLIFIERS]

Swap(p, a, b) == [p EXCEPT ![a + 1] = p[b + 1], ![b + 1] = p[a + 1]]

\* a swap that always exchanges with the first element
SwappedWithFirst(ps) == Swap(ps.p, 0, ps.i)

\* the swap of Heap's algorithm at index i
Swapped(ps) ==
    IF ps.i % 2 = 0 THEN Swap(ps.p, 0, ps.i) ELSE Swap(ps.p, ps.c[ps.i + 1], ps.i)

\* the while loop of PhaseSettings::next; AMPLIFIERS there is the length of
\* the arrays self.0 and self.1
RECURSIVE PhaseScan(_)
PhaseScan(ps) ==
    IF ps.i >= Len(ps.p) THEN [some |-> FALSE, item |-> << >>, self |-> ps]
    ELSE IF ps.c[ps.i + 1] < ps.i
    THEN [some |-> TRUE, item |-> Swapped(ps),
          self |-> [p |-> Swapped(ps),
                    c |-> [ps.c EXCEPT ![ps.i + 1] = @ + 1],
                    i |-> 0]]
    ELSE PhaseScan([ps EXCEPT !.c[ps.i + 1] = 0, !.i = ps.i + 1])

\* PhaseSettings::next
PhaseNext(ps) ==
    IF ps.i = Len(ps.p)
    THEN [some |-> TRUE, item |-> ps.p, self |-> [ps EXCEPT !.i = 0]]
    ELSE PhaseScan(ps)

\* the programs the ring is run on
RingPrograms ==
    { \* signal * 2 + phase, once
      <<3,15, 3,16, 1002,16,2,16, 1,15,16,16, 4,16, 99, 0, 0>>,
      \* signal + phase, then the next signal unchanged, then halt
      <<3,15, 3,16, 1,15,16,16, 4,16, 3,16, 4,16, 99, 0, 0>>,
      \* meets an invalid opcode while primed
      <<55>>,
      \* gives the signal back, then meets an invalid opcode
      <<3,9, 3,10, 4,10, 55, 0, 0, 0, 0>>,
      \* phase 6 writes its phase and meets an invalid opcode while primed;
      \* the other phases give the signal back and halt
      <<3,20, 1008,20,6,21, 1005,21,14, 3,21, 4,21, 99, 4,20, 55,
        0, 0, 0, 0, 0>>,
      \* gives the signal back; then phase 6 meets an invalid opcode and the
      \* other phases halt
      <<3,20, 3,21, 4,21, 1008,20,6,22, 1005,22,14, 99, 55,
        0, 0, 0, 0, 0, 0, 0, 0>>,
      \* gives the signal back; phase 5 then halts, the other phases give
      \* the next signal back before they halt
      <<3,20, 3,21, 4,21, 1008,20,5,22, 1005,22,17, 3,21, 4,21, 99,
        0, 0, 0, 0, 0>>,
      \* signal + phase; meets an invalid opcode after the output 6, halts
      \* after any other
      <<3,20, 3,21, 1,20,21,21, 4,21, 1008,21,6,22, 1005,22,18, 99, 55,
        0, 0, 0, 0>>,
      \* halts without an output
      <<3,5, 3,5, 99, 0>>,
      \* gives the signal back, then the signal + phase, and halts
      <<3,13, 3,14, 4,14, 1,13,14,14, 4,14, 99, 0, 0>>,
      \* halts while primed
      <<3,3, 99, 0>> }

RingInit ==
    /\ main = "day07p2"
    /\ outcome = "running"
    /\ printed = << >>
    /\ idx = 0
    /\ stage = "permutation"
    /\ program \in RingPrograms
    /\ phases = permutations
    /\ phase_settings = << >>
    /\ yielded = << >>
    /\ programs = << >>
    /\ input0 = 0
    /\ input1 = 0
    /\ final_output = << >>
    /\ halted = << >>
    /\ num_halted = 0
    /\ best = 0
    /\ NoNetwork
    /\ variant = "day07p2"
    /\ code = << >>
    /\ ip = 0
    /\ relative_base = 0
    /\ last = Fresh
    /\ fed = << >>
    /\ outs = << >>
    /\ calls = 0

InRing(where) ==
    /\ main = "day07p2"
    /\ outcome = "running"
    /\ stage = where

\* for phase_settings in PhaseSettings::permutations(): the next permutation
\* and fresh clones
RingPermutation(n) ==
    /\ n.some
    /\ phases' = n.self
    /\ phase_settings' = n.item
    /\ yielded' = Append(yielded, n.item)
    /\ programs' = [k \in 1..AMPLIFIERS |-> Clone(program)]
    /\ stage' = "prime"
    /\ idx' = 0
    /\ UNCHANGED << outcome, printed >>

\* the permutations are used up: println!("Best: {}", best)
RingBest(n) ==
    /\ ~n.some
    /\ phases' = n.self
    /\ printed' = Append(printed, best)
    /\ outcome' = "done"
    /\ UNCHANGED << phase_settings, yielded, programs, stage, idx >>

RingFor ==
    /\ InRing("permutation")
    /\ \E n \in {PhaseNext(phases)} : RingPermutation(n) \/ RingBest(n)
    /\ UNCHANGED << instanceVars, main, networkVars, input0, final_output,
                    halted, num_halted, best,
                    input1 >>

\* after the last priming call: the locals of the feedback loop
Primed(i) ==
    IF i + 1 < AMPLIFIERS
    THEN /\ idx' = i + 1
         /\ input0' = phase_settings[i + 1]
         /\ UNCHANGED << stage, final_output, halted, num_halted >>
    ELSE /\ idx' = 0
         /\ stage' = "feedback"
         /\ final_output' = [k \in 1..AMPLIFIERS |-> 0]
         /\ halted' = [k \in 1..AMPLIFIERS |-> FALSE]
         /\ num_halted' = 0
         /\ input0' = 0

\* a run call of main returned Err, or panicked: main ends
RingFail(r) ==
    /\ outcome' = r.st
    /\ UNCHANGED << idx, stage, final_output, halted, num_halted >>

\* input[0] = phase_settings[i]; programs[i].run(&input)?
RingPrimed(i, input, r) ==
    /\ r.st # "bound"
    /\ last' = CallRecord(input, r, programs[i + 1])
    /\ programs' = [programs EXCEPT ![i + 1] = After("day07p2", @, r)]
    /\ IF r.st = "ret"
       THEN Primed(i) /\ outcome' = outcome
       ELSE RingFail(r) /\ input0' = phase_settings[i + 1]

RingPrime ==
    /\ InRing("prime")
    /\ \E r \in {run("day07p2", programs[idx + 1], << phase_settings[idx + 1] >>)} :
           RingPrimed(idx, << phase_settings[idx + 1] >>, r)
    /\ UNCHANGED << variant, program, code, ip, relative_base, fed, outs, calls,
                    main, printed, networkVars, phases, phase_settings, yielded, best,
                    input1 >>

\* if halted[i] { input[0] = final_output[i]; }
RingPass ==
    /\ InRing("feedback")
    /\ idx < AMPLIFIERS
    /\ halted[idx + 1]
    /\ input0' = final_output[idx + 1]
    /\ idx' = idx + 1
    /\ UNCHANGED << instanceVars, main, outcome, printed, stage, networkVars,
                    phases, phase_settings, yielded, programs, final_output, halted,
                    num_halted, best,
                    input1 >>

\* final_output[i] = output[0]; if done { ... }; input[0] = output[0]:
\* output[0] panics on an empty output
Amplified(i, r) ==
    IF r.output = << >>
    THEN /\ outcome' = "panic"
         /\ UNCHANGED << idx, input0, final_output, halted, num_halted >>
    ELSE /\ outcome' = outcome
         /\ final_output' = [final_output EXCEPT ![i + 1] = r.output[1]]
         /\ halted' = [halted EXCEPT ![i + 1] = r.halted]
         /\ num_halted' = IF r.halted THEN num_halted + 1 ELSE num_halted
         /\ input0' = r.output[1]
         /\ idx' = idx + 1

\* let (output, done) = programs[i].run(&input)?
RingReturned(i, input, r) ==
    /\ r.st # "bound"
    /\ last' = CallRecord(input, r, programs[i + 1])
    /\ programs' = [programs EXCEPT ![i + 1] = After("day07p2", @, r)]
    /\ IF r.st = "ret"
       THEN Amplified(i, r)
       ELSE RingFail(r) /\ input0' = input0

\* a feedback loop that hands the phase setting to the amplifier again
RingTurnReprimes ==
    /\ InRing("feedback")
    /\ idx < AMPLIFIERS
    /\ ~halted[idx + 1]
    /\ \E r \in {run("day07p2", programs[idx + 1], << phase_settings[idx + 1] >>)} :
           RingReturned(idx, << phase_settings[idx + 1] >>, r)
    /\ UNCHANGED << variant, program, code, ip, relative_base, fed, outs, calls,
                    main, printed, stage, networkVars, phases, phase_settings, yielded,
                    best,
                    input1 >>

RingTurn ==
    /\ InRing("feedback")
    /\ idx < AMPLIFIERS
    /\ ~halted[idx + 1]
    /\ \E r \in {run("day07p2", programs[idx + 1], << input0 >>)} :
           RingReturned(idx, << input0 >>, r)
    /\ UNCHANGED << variant, program, code, ip, relative_base, fed, outs, calls,
                    main, printed, stage, networkVars, phases, phase_settings, yielded,
                    best,
                    input1 >>

\* while num_halted < AMPLIFIERS: another pass
RingAgain ==
    /\ InRing("feedback")
    /\ idx = AMPLIFIERS
    /\ num_halted < AMPLIFIERS
    /\ idx' = 0
    /\ UNCHANGED << instanceVars, main, outcome, printed, stage, networkVars,
                    ringVars >>

\* println!("Output for ...: {}", final_output[4]); the best so far
RingReport ==
    /\ InRing("feedback")
    /\ idx = AMPLIFIERS
    /\ num_halted >= AMPLIFIERS
    /\ printed' = Append(printed, final_output[AMPLIFIERS])
    /\ best' = IF final_output[AMPLIFIERS] > best
               THEN final_output[AMPLIFIERS] ELSE best
    /\ stage' = "permutation"
    /\ UNCHANGED << instanceVars, main, outcome, idx, networkVars, phases,
                    phase_settings, yielded, programs, input0, final_output, halted,
                    num_halted,
                    input1 >>

RingNext ==
    RingFor \/ RingPrime \/ RingPass \/ RingTurn \/ RingAgain \/ RingReport

SpecRing == RingInit /\ [][RingNext]_vars

(***************************************************************************)
(* main of day07/part1: the pipeline without feedback.  Every stage is a   *)
(* fresh clone of the program run once on [phase, signal].                 *)
(***************************************************************************)

\* PhaseSettings::permutations() of day07/part1: the phases 0, 1, ...
permutationsLine ==
    [p |-> [k \in 1..AMPLIFIERS |-> k - 1],
     c |-> [k \in 1..AMPLIFIERS |-> 0],
     i |-> AMPLIFIERS]

\* the example of the module doc
Example43210 == <<3,15, 3,16, 1002,16,10,16, 1,16,15,15, 4,15, 99, 0, 0>>

\* the programs the pipeline is run on
LinePrograms ==
    { Example43210,
      \* signal + phase
      <<3,11, 3,12, 1,11,12,12, 4,12, 99, 0, 0>>,
      \* the signal, then signal + phase
      <<3,13, 3,14, 4,14, 1,13,14,14, 4,14, 99, 0, 0>>,
      \* the phase only: the signal is not read
      <<3,5, 4,5, 99, 0>>,
      \* no output
      <<3,5, 3,5, 99, 0>>,
      \* reads a third input
      <<3,9, 3,9, 3,9, 4,9, 99, 0>>,
      \* phase 1 meets an invalid opcode, the other phases give the signal back
      <<3,13, 3,14, 1005,13,11, 4,14, 99, 55, 0, 0, 0>> }

LineInit ==
    /\ main = "day07p1"
    /\ outcome = "running"
    /\ printed = << >>
    /\ idx = 0
    /\ stage = "permutation"
    /\ program \in LinePrograms
    /\ phases = permutationsLine
    /\ phase_settings = << >>
    /\ yielded = << >>
    /\ programs = << >>
    /\ input0 = 0
    /\ input1 = 0
    /\ final_output = << >>
    /\ halted = << >>
    /\ num_halted = 0
    /\ best = 0
    /\ NoNetwork
    /\ variant = "day07p1"
    /\ code = << >>
    /\ ip = 0
    /\ relative_base = 0
    /\ last = Fresh
    /\ fed = << >>
    /\ outs = << >>
    /\ calls = 0

InLine(where) ==
    /\ main = "day07p1"
    /\ outcome = "running"
    /\ stage = where

\* for phase_settings in PhaseSettings::permutations() { input[1] = 0; ...
LinePermutation(n) ==
    /\ n.some
    /\ phases' = n.self
    /\ phase_settings' = n.item
    /\ yielded' = Append(yielded, n.item)
    /\ input1' = 0
    /\ stage' = "stage"
    /\ idx' = 0
    /\ UNCHANGED << outcome, printed >>

\* the permutations are used up: println!("Best: {}", best)
LineBest(n) ==
    /\ ~n.some
    /\ phases' = n.self
    /\ printed' = Append(printed, best)
    /\ outcome' = "done"
    /\ UNCHANGED << phase_settings, yielded, input1, stage, idx >>

LineFor ==
    /\ InLine("permutation")
    /\ \E n \in {PhaseNext(phases)} : LinePermutation(n) \/ LineBest(n)
    /\ UNCHANGED << instanceVars, main, networkVars, programs, input0,
                    final_output, halted, num_halted, best >>

\* let mut program = program.clone(); input[0] = phase_settings[i];
\* program.run(&input): the call of one stage
LineCall(prog, phase, signal) ==
    run("day07p1", Clone(prog), << phase, signal >>)

\* a pipeline whose stages do not pass their output on
LineReturnedKeepsSignal(input, r) ==
    /\ r.st # "bound"
    /\ last' = CallRecord(input, r, Clone(program))
    /\ IF r.st = "ret" /\ r.output # << >>
       THEN /\ input1' = input1
            /\ idx' = idx + 1
            /\ outcome' = outcome
       ELSE /\ outcome' = IF r.st = "ret" THEN "panic" ELSE r.st
            /\ UNCHANGED << input1, idx >>

\* input[1] = output[0]: output[0] panics on an empty output
LineReturned(input, r) ==
    /\ r.st # "bound"
    /\ last' = CallRecord(input, r, Clone(program))
    /\ IF r.st = "ret" /\ r.output # << >>
       THEN /\ input1' = r.output[1]
            /\ idx' = idx + 1
            /\ outcome' = outcome
       ELSE /\ outcome' = IF r.st = "ret" THEN "panic" ELSE r.st
            /\ UNCHANGED << input1, idx >>

LineStage ==
    /\ InLine("stage")
    /\ idx < AMPLIFIERS
    /\ input0' = phase_settings[idx + 1]
    /\ \E r \in {LineCall(program, phase_settings[idx + 1], input1)} :
           LineReturned(<< phase_settings[idx + 1], input1 >>, r)
    /\ UNCHANGED << variant, program, code, ip, relative_base, fed, outs, calls,
                    main, printed, stage, networkVars, phases, phase_settings, yielded,
                    programs, final_output, halted, num_halted, best >>

\* println!("Output for ...: {}", input[1]); the best so far
LineReport ==
    /\ InLine("stage")
    /\ idx = AMPLIFIERS
    /\ printed' = Append(printed, input1)
    /\ best' = IF input1 > best THEN input1 ELSE best
    /\ stage' = "permutation"
    /\ UNCHANGED << instanceVars, main, outcome, idx, networkVars, phases,
                    phase_settings, yielded, programs, input0, input1, final_output,
                    halted, num_halted >>

LineNext == LineFor \/ LineStage \/ LineReport

SpecLine == LineInit /\ [][LineNext]_vars

\* the stages i + 1, i + 2, ... of one permutation as a function of the
\* signal that enters stage i + 1: the signal that leaves the last stage
RECURSIVE Chain(_, _, _, _)
ChainOn(prog, settings, i, r) ==
    IF r.st # "ret" THEN [st |-> r.st, v |-> 0]
    ELSE IF r.output = << >> THEN [st |-> "panic", v |-> 0]
    ELSE Chain(prog, settings, i + 1, r.output[1])

Chain(prog, settings, i, signal) ==
    IF i >= Len(settings) THEN [st |-> "ret", v |-> signal]
    ELSE ChainOn(prog, settings, i, LineCall(prog, settings[i + 1], signal))

\* any main
(***************************************************************************)
(* The PhaseSettings iterator on its own, at the width of the source       *)
(* (AMPLIFIERS = 5): for phase_settings in PhaseSettings::permutations()   *)
(* with the body of the loop left out.                                     *)
(***************************************************************************)

\* PhaseSettings([5, 6, 7, 8, 9], [0; AMPLIFIERS], AMPLIFIERS) of day07/part2
permutationsFive ==
    [p |-> << 5, 6, 7, 8, 9 >>, c |-> << 0, 0, 0, 0, 0 >>, i |-> 5]

\* PhaseSettings([0, 1, 2, 3, 4], [0; AMPLIFIERS], AMPLIFIERS) of day07/part1
permutationsLineFive ==
    [p |-> << 0, 1, 2, 3, 4 >>, c |-> << 0, 0, 0, 0, 0 >>, i |-> 5]

PhasesInit ==
    /\ main = "none"
    /\ outcome = "running"
    /\ printed = << >>
    /\ idx = 0
    /\ stage = "permutation"
    /\ \/ variant = "day07p2" /\ phases = permutationsFive
       \/ variant = "day07p1" /\ phases = permutationsLineFive
    /\ phase_settings = << >>
    /\ yielded = << >>
    /\ programs = << >>
    /\ input0 = 0
    /\ input1 = 0
    /\ final_output = << >>
    /\ halted = << >>
    /\ num_halted = 0
    /\ best = 0
    /\ NoNetwork
    /\ program = << >>
    /\ code = << >>
    /\ ip = 0
    /\ relative_base = 0
    /\ last = Fresh
    /\ fed = << >>
    /\ outs = << >>
    /\ calls = 0

\* next returned Some(item): the loop takes the item
PhasesSome(n) ==
    /\ n.some
    /\ phases' = n.self
    /\ phase_settings' = n.item
    /\ yielded' = Append(yielded, n.item)
    /\ UNCHANGED outcome

\* next returned None: the loop ends
PhasesNone(n) ==
    /\ ~n.some
    /\ phases' = n.self
    /\ outcome' = "done"
    /\ UNCHANGED << phase_settings, yielded >>

PhasesFor ==
    /\ main = "none"
    /\ outcome = "running"
    /\ stage = "permutation"
    /\ \E n \in {PhaseNext(phases)} : PhasesSome(n) \/ PhasesNone(n)
    /\ UNCHANGED << instanceVars, main, printed, idx, stage, networkVars,
                    programs, input0, input1, final_output, halted,
                    num_halted, best >>

PhasesNext == PhasesFor

SpecPhases == PhasesInit /\ [][PhasesNext]_vars

MainInit == NetInit \/ RingInit \/ LineInit

MainNext == NetNext \/ RingNext \/ LineNext

SpecMain == MainInit /\ [][MainNext]_vars

(***************************************************************************)
(* Properties of one instance (specification Spec).                        *)
(***************************************************************************)
\* the variants whose run can suspend
Suspending == {"day23", "day07p2"}

Iterations == 1..Len(last.log)

\* the loop state after iteration k of the latest call
PostOf(k) ==
    IF k < Len(last.log) THEN last.log[k + 1]
    ELSE [code |-> last.end.code, ip |-> last.end.ip,
          relative_base |-> last.end.relative_base,
          inputp |-> last.inputp, nout |-> Len(last.output), op |-> "None"]

\* iteration k met an Input instruction with every supplied value consumed
Starved(k) ==
    /\ last.log[k].op = "Input"
    /\ last.log[k].inputp >= Len(last.input)

OpsRun == { last.log[k].op : k \in Iterations }

\* C1: in the suspending variants, an Input instruction reached with all the
\* supplied input consumed ends the call with a suspended (not halted)
\* result; the instance is left exactly as that iteration found it (ip on
\* the Input opcode, memory and relative_base untouched), and the call that
\* follows a suspended call starts at that Input instruction.
C1_SuspendsAtStarvedInput ==
    variant \in Suspending =>
        /\ \A k \in Iterations :
              Starved(k) =>
                  /\ k = Len(last.log)
                  /\ last.status = "suspended"
                  /\ ip = last.log[k].ip
                  /\ code = last.log[k].code
                  /\ relative_base = last.log[k].relative_base
        /\ last.before = "suspended" =>
              /\ Len(last.log) >= 1
              /\ last.log[1].op = "Input"
              /\ last.log[1].ip = last.pre.ip
              /\ last.log[1].code = last.pre.code
              /\ last.log[1].relative_base = last.pre.relative_base

C1_Witness ==
    /\ variant = "day23"
    /\ last.status = "suspended"
    /\ last.before = "suspended"
    /\ last.inputp > 0
    /\ Len(last.log) > 1

\* C2: a call returns Ok with halted = false only from an Input instruction
\* with every supplied value consumed (ip is on that Input), and returns Ok
\* with halted = true only from Halt: no other instruction ends the loop
\* with an Ok.
C2_OnlyStarvedInputSuspends ==
    /\ last.status = "suspended" =>
          /\ OpAt(variant, code, ip) = "Input"
          /\ last.inputp = Len(last.input)
          /\ Len(last.log) >= 1
          /\ last.log[Len(last.log)].op = "Input"
          /\ last.log[Len(last.log)].ip = ip
    /\ last.status = "halted" =>
          /\ Len(last.log) >= 1
          /\ last.log[Len(last.log)].op = "Halt"

C2_Witness ==
    /\ variant = "day23"
    /\ last.status = "suspended"
    /\ {"Add", "Output", "JumpIfTrue", "Input"} \subseteq OpsRun
    /\ Len(last.output) > 0

\* the program as loaded, before any call
Loaded == [code |-> program, ip |-> 0, relative_base |-> 0]

SameAsWhole(w) ==
    /\ Status(w) = last.status
    /\ w.output = outs
    /\ After(variant, Loaded, w) = Self

\* C3: after any sequence of run calls that each returned Ok, the
\* concatenated outputs, the memory, ip, relative_base and the halted flag
\* are those of one run call on a fresh copy of the program with the
\* concatenated inputs.
C3_ChunkedRunEqualsWholeRun ==
    (variant \in Suspending /\ last.status \in {"suspended", "halted"}) =>
        \E w \in {runLong(variant, Loaded, fed)} : SameAsWhole(w)

C3_Witness ==
    /\ variant = "day23"
    /\ last.before = "suspended"
    /\ last.status = "halted"
    /\ last.inputp >= 1
    /\ Len(fed) > Len(last.input)
    /\ Len(outs) > Len(last.output)
    /\ Len(last.output) >= 1

\* C4: a run call on an instance whose previous call returned halted
\* returns empty output and halted, consumes no input and leaves memory, ip
\* and relative_base as they were.
C4_HaltedStaysHalted ==
    last.before = "halted" =>
        /\ last.status = "halted"
        /\ last.output = << >>
        /\ last.inputp = 0
        /\ Self = last.pre
        /\ OpAt(variant, code, ip) = "Halt"

C4_Witness ==
    /\ last.before = "halted"
    /\ Len(last.input) > 0
    /\ variant \in Suspending

\* the iterations of the latest call that completed their instruction: all
\* but the last, which ended the loop
Completed == 1..(Len(last.log) - 1)

\* how many Input instructions completed before iteration k
InputsBefore(k) == Cardinality({ j \in 1..(k - 1) : last.log[j].op = "Input" })

\* iteration k changed memory by storing v in one cell and nothing else
StoredOnly(k, v) ==
    \E a \in 0..(Len(PostOf(k).code) - 1) :
        /\ PostOf(k).code[a + 1] = v
        /\ \A b \in 0..(Len(PostOf(k).code) - 1) :
              b # a => PostOf(k).code[b + 1] =
                         IF b < Len(last.log[k].code)
                         THEN last.log[k].code[b + 1] ELSE 0

\* the operand of the Output instruction of iteration k (day23)
OutputOperand(e) ==
    operand(e.code, e.relative_base, e.ip + 1,
            Opcode(e.code[e.ip + 1]).modes[1]).v

\* the operands of the Output instructions among iterations 1..k, in order
RECURSIVE Emitted(_)
Emitted(k) ==
    IF k = 0 THEN << >>
    ELSE IF last.log[k].op = "Output"
         THEN Append(Emitted(k - 1), OutputOperand(last.log[k]))
         ELSE Emitted(k - 1)

\* C5: within one call of the day23 processor the n-th Input instruction
\* executed stores element n of the supplied input and nothing else, and
\* the output returned is the sequence of the operands of the Output
\* instructions executed in that call, in execution order.
C5_InputFifoOutputInOrder ==
    variant = "day23" =>
        /\ \A k \in Completed :
              last.log[k].op = "Input" =>
                  /\ InputsBefore(k) < Len(last.input)
                  /\ last.log[k].inputp = InputsBefore(k)
                  /\ StoredOnly(k, last.input[InputsBefore(k) + 1])
        /\ last.status \in {"suspended", "halted"} =>
              /\ last.output = Emitted(Len(last.log) - 1)
              /\ last.inputp = InputsBefore(Len(last.log))

C5_Witness ==
    /\ variant = "day23"
    /\ calls = MaxCalls
    /\ Len(outs) > Len(last.output)
    /\ last.inputp = 2
    /\ last.input[1] # last.input[2]
    /\ Len(last.output) = 2
    /\ last.output[1] # last.output[2]

\* the value the fetch of iteration entry e decodes: a cell past the end of
\* the tape reads as 0
CellAt(e) ==
    IF e.ip >= 0 /\ e.ip < Len(e.code) THEN e.code[e.ip + 1] ELSE 0

\* the instruction of entry e has a write parameter decoded as Immediate
WriteImmediate(e) ==
    \/ /\ Opcode(CellAt(e)).op \in {"Add", "Multiply", "LessThan", "Equal"}
       /\ Opcode(CellAt(e)).modes[3] = "Immediate"
    \/ /\ Opcode(CellAt(e)).op = "Input"
       /\ Opcode(CellAt(e)).modes[1] = "Immediate"

\* the cells entry e saw are as they were; the tape may only have been
\* extended with zeros
CellsKept(e) ==
    /\ Len(code) >= Len(e.code)
    /\ \A a \in 1..Len(code) :
          code[a] = IF a <= Len(e.code) THEN e.code[a] ELSE 0

\* parameter i of entry e lies on the tape and, read in this mode, names no
\* negative address
ReadsCleanly(e, i, mode) ==
    /\ e.ip + i < Len(e.code)
    /\ mode = "Position" => e.code[e.ip + i + 1] >= 0
    /\ mode = "Relative" => e.code[e.ip + i + 1] + e.relative_base >= 0

\* the parameters an instruction with an Immediate write parameter touches
\* before the write mode is looked at
FetchesCleanly(e) ==
    IF Opcode(CellAt(e)).op = "Input" THEN e.ip + 1 < Len(e.code)
    ELSE /\ ReadsCleanly(e, 1, Opcode(CellAt(e)).modes[1])
         /\ ReadsCleanly(e, 2, Opcode(CellAt(e)).modes[2])
         /\ e.ip + 3 < Len(e.code)

Arity(o) ==
    CASE o \in {1, 2, 7, 8} -> 3
      [] o \in {5, 6} -> 2
      [] o \in {3, 4, 9} -> 1
      [] OTHER -> 0

RECURSIVE Pow10(_)
Pow10(n) == IF n = 0 THEN 1 ELSE 10 * Pow10(n - 1)

\* the mode digit of parameter i in the instruction value v
ModeDigit(v, i) == RustRem(RustDiv(RustDiv(v, 100), Pow10(i - 1)), 10)

BadOpcodeValue(v) == RustRem(v, 100) \notin (1..9) \cup {99}

BadModeDigit(v) ==
    /\ ~BadOpcodeValue(v)
    /\ \E i \in 1..Arity(RustRem(v, 100)) : ModeDigit(v, i) \notin {0, 1, 2}

\* C8: when the cell at ip holds a value whose opcode is not one of 1..9
\* or 99, or whose mode digit for a declared parameter is outside {0,1,2},
\* the call (day23) fails with the decode error at that instruction: it is
\* the last one the call looks at, no cell is changed, ip and relative_base
\* stay, and the call gives an error, not a result.
C8_BadInstructionIsDecodeError ==
    variant = "day23" =>
        \A k \in Iterations :
            (/\ last.log[k].ip >= 0
             /\ \/ BadOpcodeValue(CellAt(last.log[k]))
                \/ BadModeDigit(CellAt(last.log[k]))) =>
                /\ k = Len(last.log)
                /\ last.status = "InvalidOpcode"
                /\ last.log[k].op = "InvalidOpcode"
                /\ ip = last.log[k].ip
                /\ relative_base = last.log[k].relative_base
                /\ CellsKept(last.log[k])

C8_Witness ==
    /\ variant = "day23"
    /\ last.status = "InvalidOpcode"
    /\ Len(last.log) >= 2
    /\ BadModeDigit(CellAt(last.log[Len(last.log)]))
    /\ last.log[Len(last.log)].nout > 0

\* C10 as stated: in every variant an Input instruction met with all the
\* supplied input consumed ends the call with a suspended return.
C10_StarvationSuspends ==
    \A k \in Iterations : Starved(k) => last.status = "suspended"

\* parameter cell i of the instruction of entry e, a cell past the end of
\* the tape taken as 0
ParamCell(e, i) ==
    IF e.ip + i < Len(e.code) THEN e.code[e.ip + i + 1] ELSE 0

\* no parameter of the instruction of entry e names a negative address
NoNegativeAddress(e) ==
    \A i \in 1..Arity(RustRem(CellAt(e), 100)) :
        /\ Opcode(CellAt(e)).modes[i] = "Position" => ParamCell(e, i) >= 0
        /\ Opcode(CellAt(e)).modes[i] = "Relative" =>
              ParamCell(e, i) + e.relative_base >= 0

\* C11 as stated: in the day23 processor no access at a non-negative
\* address faults, the parameter cells at ip+1..ip+3 included: a call
\* panics only at an instruction that names a negative address.
C11_NoFaultPastTheEnd ==
    variant = "day23" =>
        \A k \in Iterations :
            (/\ last.log[k].ip >= 0
             /\ Opcode(CellAt(last.log[k])).op # "InvalidOpcode"
             /\ NoNegativeAddress(last.log[k])) =>
                ~(k = Len(last.log) /\ last.status = "panic")

(***************************************************************************)
(* Properties of the mains (specification SpecMain).                       *)
(***************************************************************************)
\* the errors run returns
Errs == {"InvalidOpcode", "InvalidOutputMode"}

\* the step of the network in which a run call returns Err changes nothing
\* but the failing computer: its queue holds what it was given, nothing is
\* routed, the NAT and the idle counts stay
NetworkKept ==
    /\ natx' = natx
    /\ naty' = naty
    /\ prev_naty' = prev_naty
    /\ idle' = idle
    /\ \A k \in 1..COMPUTERS :
          /\ queues'[k] = IF k = idx + 1 /\ queues[k] = << >>
                          THEN << -1 >> ELSE queues[k]
          /\ k # idx + 1 => computers'[k] = computers[k]

\* the same of the ring: no final output is recorded, no amplifier marked
\* halted, the best stays
RingKept ==
    /\ final_output' = final_output
    /\ halted' = halted
    /\ num_halted' = num_halted
    /\ best' = best
    /\ phases' = phases
    /\ \A k \in 1..AMPLIFIERS : k # idx + 1 => programs'[k] = programs[k]

\* C9: when a run call of an instance returns an error, main (the network
\* of day23, the ring of day07/part2) ends with that error: the values the
\* failing call had written are not routed or recorded, nothing is printed,
\* and no step follows: no instance is run, the NAT sends nothing.
C9_ErrorEndsMain ==
    [][/\ outcome = "running"
       /\ outcome' \in Errs =>
             /\ last'.status = outcome'
             /\ printed' = printed
             /\ idx' = idx
             /\ main = "day23" => NetworkKept
             /\ main = "day07p2" => RingKept]_vars

C9_Witness ==
    /\ main = "day23"
    /\ outcome \in Errs
    /\ idx > 0
    /\ Len(last.output) >= 6
    /\ Len(queues[idx + 1]) = 3
    /\ \E k \in 1..COMPUTERS : queues[k] = << >>

\* C12: instances cloned from one program share nothing: a step of main
\* leaves the loaded program as it is and changes the memory, ip and
\* relative_base of no instance but the one whose turn it is (network and
\* ring); the instance run is left as its own call left it, and a new
\* permutation of the ring starts every amplifier from a fresh copy.
C12_InstancesShareNothing ==
    [][/\ program' = program
       /\ main = "day23" =>
             /\ \A k \in 1..COMPUTERS :
                   k # idx + 1 => computers'[k] = computers[k]
             /\ (idx < COMPUTERS /\ computers'[idx + 1] # computers[idx + 1]) =>
                   computers'[idx + 1] =
                       [code |-> last'.end.code, ip |-> last'.end.ip,
                        relative_base |-> last'.end.relative_base]
       /\ (main = "day07p2" /\ stage # "permutation") =>
             \A k \in 1..AMPLIFIERS :
                 k # idx + 1 => programs'[k] = programs[k]
       /\ (main = "day07p2" /\ stage = "permutation" /\ stage' = "prime") =>
             \A k \in 1..AMPLIFIERS :
                 programs'[k] = [code |-> program, ip |-> 0, relative_base |-> 0]
      ]_vars

C12_Witness ==
    /\ main = "day23"
    /\ computers[1].code # computers[2].code
    /\ computers[1].code # program
    /\ computers[2].code # program
    /\ computers[1].ip # computers[2].ip

\* the x and y of the whole triples of output addressed to d, in order
RECURSIVE PairsFor(_, _, _)
PairsFor(output, d, j) ==
    IF j + 2 >= Len(output) THEN << >>
    ELSE IF output[j + 1] = d
    THEN << output[j + 2], output[j + 3] >> \o PairsFor(output, d, j + 3)
    ELSE PairsFor(output, d, j + 3)

\* the step is the turn of computer idx, whose run returned Ok and whose
\* output was routed
Turned ==
    /\ main = "day23"
    /\ idx < COMPUTERS
    /\ idx' = idx + 1
    /\ ~(queues[idx + 1] = << >> /\ idle[idx + 1] >= 2)

\* C13: a computer is handed its whole queue in queue order, and the turn
\* of a sender appends to the queue of every other computer d the x and y
\* of the triples addressed to d, in the order of the output, each x
\* followed by its y, behind what the queue already held.
C13_RoutedInOrder ==
    [][Turned =>
          /\ last'.input = IF queues[idx + 1] = << >> THEN << -1 >>
                           ELSE queues[idx + 1]
          /\ given'[idx + 1] = given[idx + 1] \o last'.input
          /\ \A d \in 0..(COMPUTERS - 1) :
                d # idx =>
                    queues'[d + 1] =
                        queues[d + 1] \o PairsFor(last'.output, d, 0)]_vars

C13_Witness ==
    /\ main = "day23"
    /\ outcome = "running"
    /\ Len(last.input) = 5
    /\ last.input[2] # last.input[4]
    /\ given[2] = last.input
    /\ last.pre.code = program

\* C14 as stated: every triple addressed to a computer, the sender itself
\* included, is on the queue of that computer after the turn of the sender:
\* the queue of another computer is extended by its packets, and the queue
\* of the sender, handed to it whole at this turn, holds the packets it
\* sent to itself.
C14_EveryPacketDelivered ==
    [][Turned =>
          \A d \in 0..(COMPUTERS - 1) :
              queues'[d + 1] =
                  (IF d = idx THEN << >> ELSE queues[d + 1])
                      \o PairsFor(last'.output, d, 0)]_vars

\* the step changes the packet the NAT holds
NatChanged == << natx', naty' >> # << natx, naty >>

\* the x and y of the triples for address 255 in the output of the call of
\* this step
ForNat == PairsFor(last'.output, NatAddress, 0)

\* C15: the packet the NAT holds is the latest packet sent to address 255
\* (the initial one while none was sent): it changes only in the turn of a
\* computer that sent one, to the last such packet of that output, and a
\* turn puts on the queue of another computer nothing but the packets
\* addressed to it.
C15_NatKeepsLatest ==
    /\ [](heard # << >> => << natx, naty >> = heard[Len(heard)])
    /\ []((main = "day23" /\ heard = << >>) => (natx = 0 /\ naty = NatyUnset))
    /\ [][/\ NatChanged =>
               /\ main = "day23"
               /\ idx < COMPUTERS
               /\ Len(ForNat) >= 2
               /\ natx' = ForNat[Len(ForNat) - 1]
               /\ naty' = ForNat[Len(ForNat)]
          /\ Turned =>
               \A d \in 0..(COMPUTERS - 1) :
                   d # idx =>
                       Len(queues'[d + 1]) =
                           Len(queues[d + 1]) + Len(PairsFor(last'.output, d, 0))
         ]_vars

C15_Witness ==
    /\ main = "day23"
    /\ Len(heard) >= 2
    /\ heard[Len(heard) - 1] # heard[Len(heard)]
    /\ << natx, naty >> = heard[Len(heard)]
    /\ \A k \in 1..COMPUTERS : queues[k] = << >>

\* C16 as stated: the network is declared idle (every idle count is 2 or
\* more at the end of a round) only when every computer has been quiet for
\* two rounds in a row at least: its queue empty at its turn and nothing
\* sent.
C16_IdleMeansQuiet ==
    (AfterRound /\ AllIdle) => \A i \in 1..COMPUTERS : quiet[i] >= 2

\* C17 as stated: the network ends, reporting a y, only at an idle
\* detection that follows a delivery of that same y by the NAT to
\* computer 0.
C17_EndsOnRepeatedDelivery ==
    (main = "day23" /\ outcome = "done") =>
        /\ woken # << >>
        /\ printed = << woken[Len(woken)][2] >>

\* C18 as stated: a network in which no packet is ever sent to address 255
\* does not end through the idle test.
C18_NoEndWithoutNatPacket ==
    (main = "day23" /\ outcome = "done") => heard # << >>

\* C19: the first value computer i is ever handed is its own address i:
\* until its first turn the address is at the head of its queue, in front
\* of every packet routed to it meanwhile, and from then on it is the first
\* of the values it was given.
C19_AddressFirst ==
    main = "day23" =>
        \A i \in 0..(COMPUTERS - 1) :
            IF given[i + 1] = << >>
            THEN queues[i + 1] # << >> /\ queues[i + 1][1] = i
            ELSE given[i + 1][1] = i

C19_Witness ==
    /\ main = "day23"
    /\ idx = COMPUTERS
    /\ woken = << >>
    /\ \A i \in 1..COMPUTERS : Len(given[i]) >= 1
    /\ Len(given[2]) = 3
    /\ given[2][1] = 1
    /\ last.inputp = 3

\* C20: in the feedback ring every signal an amplifier emits reaches its
\* successor exactly once: a turn of a running amplifier emits exactly one
\* signal and that signal is the next input, and the signal of a halted
\* amplifier, which its successor has already had, is passed on only to a
\* successor that is itself halted and will not read it.
C20_RingDelivers ==
    [][(main = "day07p2" /\ stage = "feedback" /\ idx < AMPLIFIERS
            /\ idx' = idx + 1) =>
          IF halted[idx + 1]
          THEN halted[((idx + 1) % AMPLIFIERS) + 1]
          ELSE /\ Len(last'.output) = 1
               /\ input0' = last'.output[1]]_vars

(***************************************************************************)
(* The drive of the feedback ring.                                         *)
(***************************************************************************)

\* amplifier m has returned halted: run stores ip in self.1 at the Input it
\* suspends on and at the Halt it ends on, so a primed amplifier rests on a
\* Halt exactly when its last call returned halted
ReturnedHalted(m) == OpAt("day07p2", m.code, m.ip) = "Halt"

InFeedback == main = "day07p2" /\ stage = "feedback" /\ outcome = "running"

\* C21: while the ring is driven the count of halted amplifiers is the
\* number of amplifiers that have returned halted, an amplifier that has
\* returned halted is not run again, a further pass is made only while some
\* amplifier has not returned halted, and the result is reported only when
\* all of them have.
C21_DrivenUntilAllHalted ==
    /\ [](InFeedback =>
            num_halted = Cardinality({ i \in 1..AMPLIFIERS :
                                          ReturnedHalted(programs[i]) }))
    /\ [][(InFeedback /\ idx < AMPLIFIERS /\ ~halted[idx + 1]) =>
              ~ReturnedHalted(programs[idx + 1])]_vars
    /\ [][(InFeedback /\ idx = AMPLIFIERS /\ idx' = 0) =>
              \E i \in 1..AMPLIFIERS : ~ReturnedHalted(programs[i])]_vars
    /\ [][(InFeedback /\ stage' = "permutation") =>
              \A i \in 1..AMPLIFIERS : ReturnedHalted(programs[i])]_vars

\* C22: the result of the feedback pipeline is the last value the last
\* amplifier emitted, the one of the call in which it halted: that call
\* records its last output, nothing replaces the record afterwards, and the
\* record is what is reported.
C22_ResultIsLastOutput ==
    /\ [][(InFeedback /\ idx = AMPLIFIERS - 1 /\ last' # last
             /\ last'.status = "halted" /\ outcome' = "running") =>
              final_output'[AMPLIFIERS] = last'.output[Len(last'.output)]]_vars
    /\ [][(InFeedback /\ halted[AMPLIFIERS]) =>
              final_output'[AMPLIFIERS] = final_output[AMPLIFIERS]]_vars
    /\ [][(InFeedback /\ printed' # printed) =>
              printed' = Append(printed, final_output[AMPLIFIERS])]_vars

\* the signal in flight: 0 before the first turn, afterwards the recorded
\* output of the amplifier before the one whose turn it is
Signal == final_output[IF idx = 0 THEN AMPLIFIERS ELSE idx]

\* C23: in the feedback pipeline an amplifier is primed once, as a fresh
\* copy of the program, with its phase setting as the only input, so the
\* phase is the first value it consumes; in the feedback loop it is run as
\* the priming and its earlier turns left it, never re-cloned, and the only
\* input it is given is the signal in flight.
C23_PrimedOnceThenSignals ==
    /\ [][InRing("prime") =>
              /\ last'.pre = Clone(program)
              /\ last'.input = << phase_settings[idx + 1] >>
              /\ last'.inputp >= 1 =>
                    last'.log[1].op = "Input" /\ last'.log[1].inputp = 0
              /\ \A k \in 1..AMPLIFIERS :
                    IF k = idx + 1
                    THEN programs'[k].code = last'.end.code
                    ELSE programs'[k] = programs[k]
              /\ outcome' = "running" =>
                    (idx' = idx + 1 /\ stage' = "prime") \/
                    (idx + 1 = AMPLIFIERS /\ stage' = "feedback")]_vars
    /\ [][(InFeedback /\ idx < AMPLIFIERS /\ ~halted[idx + 1]) =>
              /\ last'.pre = programs[idx + 1]
              /\ last'.pre.ip > 0
              /\ last'.input = << Signal >>
              /\ \A k \in 1..AMPLIFIERS :
                    k # idx + 1 => programs'[k] = programs[k]]_vars
    /\ [][(InFeedback /\ (idx = AMPLIFIERS \/ halted[idx + 1])) =>
              programs' = programs /\ last' = last]_vars

C23_Witness ==
    /\ main = "day07p2"
    /\ stage = "feedback"
    /\ outcome = "running"
    /\ idx = AMPLIFIERS
    /\ num_halted = 0
    /\ last.input = << final_output[AMPLIFIERS - 1] >>
    /\ last.inputp = 1
    /\ last.pre.ip > 0
    /\ last.pre.code # program

(***************************************************************************)
(* The pipeline without feedback.                                          *)
(***************************************************************************)

\* C24: in the pipeline without feedback every stage is run once, in order,
\* on a fresh copy of the program with the inputs [phase, signal], the
\* signal being 0 for stage 0 and the output of the stage before otherwise;
\* the result reported is the output of the last stage, the value the
\* stages compute as a chain from the signal 0; and for the program
\* 3,15,3,16,1002,16,10,16,1,16,15,15,4,15,99,0,0 with the phase settings
\* 4,3,2,1,0 that value is 43210.
C24_PipelineRunsEachStageOnce ==
    /\ [][(InLine("stage") /\ idx < AMPLIFIERS) =>
              /\ last'.pre = Clone(program)
              /\ last'.input = << phase_settings[idx + 1],
                                  IF idx = 0 THEN 0 ELSE last.output[1] >>
              /\ outcome' = "running" =>
                    /\ idx' = idx + 1
                    /\ input1' = last'.output[1]]_vars
    /\ [][(main = "day07p1" /\ ~(InLine("stage") /\ idx < AMPLIFIERS)) =>
              last' = last /\ input1' \in {input1, 0}]_vars
    /\ [][(main = "day07p1" /\ stage = "stage" /\ printed' # printed) =>
              /\ idx = AMPLIFIERS
              /\ printed' = Append(printed, last.output[1])
              /\ Chain(program, phase_settings, 0, 0) =
                     [st |-> "ret", v |-> last.output[1]]]_vars
    /\ [](Chain(Example43210, << 4, 3, 2, 1, 0 >>, 0, 0) =
              [st |-> "ret", v |-> 43210])

C24_Witness ==
    /\ main = "day07p1"
    /\ program = Example43210
    /\ stage = "permutation"
    /\ outcome = "running"
    /\ Len(printed) >= 2
    /\ last.input = << phase_settings[AMPLIFIERS], last.output[1] \div 10 >>
    /\ last.input[2] # 0
    /\ printed[Len(printed)] = last.output[1]

(***************************************************************************)
(* The instructions one by one (day23).                                    *)
(***************************************************************************)

Example33 == << 1002, 4, 3, 4, 33 >>

ThreeParams == {"Add", "Multiply", "LessThan", "Equal"}

OneParam == {"Input", "Output", "RelativeBaseOffset"}

\* iteration k was followed by another one, as the instruction that memory
\* held at ip when the iteration began directs
FollowsMemory(k) ==
    /\ last.log[k].op \notin {"Halt", "InvalidOpcode", "None"}
    /\ last.log[k].op \in ThreeParams =>
          last.log[k + 1].ip = last.log[k].ip + 4
    /\ last.log[k].op \in OneParam =>
          last.log[k + 1].ip = last.log[k].ip + 2

\* C25: every iteration decodes the cell memory holds at ip at that moment,
\* so a cell an earlier instruction has overwritten is executed with its
\* new value: 1002,4,3,4,33 multiplies the 33 of cell 4 by 3, stores 99 in
\* cell 4 and executes that 99 as Halt; the call returns no output, halted,
\* with 99 in cell 4.
C25_DecodesCurrentMemory ==
    variant = "day23" =>
        /\ \A k \in Completed : FollowsMemory(k)
        /\ (program = Example33 /\ calls = 1) =>
              /\ last.status = "halted"
              /\ last.output = << >>
              /\ last.end.code = << 1002, 4, 3, 4, 99 >>
              /\ Len(last.log) = 2
              /\ last.log[1].op = "Multiply"
              /\ last.log[2].ip = 4
              /\ last.log[2].op = "Halt"
              /\ last.log[2].code[5] = 99

C25_Witness ==
    /\ variant = "day23"
    /\ program = Example33
    /\ calls = 1
    /\ last.input = << >>
    /\ last.status = "halted"
    /\ last.end.code[5] = 99
    /\ last.pre.code[5] = 33

ModeName(d) ==
    CASE d = 0 -> "Position"
      [] d = 1 -> "Immediate"
      [] d = 2 -> "Relative"
      [] OTHER -> "Invalid"

\* the instruction value v decodes to one mode per parameter, the mode of
\* parameter i being the digit i of v / 100
DecodesDigits(v) ==
    /\ Len(Opcode(v).modes) = Arity(RustRem(v, 100))
    /\ \A i \in 1..Arity(RustRem(v, 100)) :
          Opcode(v).modes[i] = ModeName(ModeDigit(v, i))

\* C26: an instruction value with a recognized opcode of k parameters, and
\* mode digits 1..k within 0..2, decodes with the mode of parameter i given
\* by digit i of v / 100, whatever the digits above digit k are, for the
\* opcodes of one parameter as for those of two and three.
C26_ModesAreDigits ==
    variant = "day23" =>
        \A k \in Iterations :
            (/\ last.log[k].ip >= 0
             /\ ~BadOpcodeValue(CellAt(last.log[k]))
             /\ ~BadModeDigit(CellAt(last.log[k]))) =>
                DecodesDigits(CellAt(last.log[k]))

\* memory[a] as entry e saw it: a cell past the end reads as 0
Mem(e, a) == IF a < Len(e.code) THEN e.code[a + 1] ELSE 0

\* the raw cell and the decoded mode of parameter i of the instruction of
\* entry e
Raw(e, i) == e.code[e.ip + i + 1]

ModeOf(e, i) == Opcode(CellAt(e)).modes[i]

\* what parameter i resolves to when it is read
Resolved(e, i) ==
    CASE ModeOf(e, i) = "Position" -> Mem(e, Raw(e, i))
      [] ModeOf(e, i) = "Immediate" -> Raw(e, i)
      [] ModeOf(e, i) = "Relative" -> Mem(e, Raw(e, i) + e.relative_base)

\* the address parameter i resolves to when it is written
WriteAddress(e, i) ==
    IF ModeOf(e, i) = "Relative" THEN Raw(e, i) + e.relative_base
    ELSE Raw(e, i)

\* the effect of the instruction of entry e, n being the entry after it, in
\* which the resolution of its parameters shows
Resolves(e, n) ==
    /\ e.op = "Output" =>
          /\ n.nout = e.nout + 1
          /\ last.output[n.nout] = Resolved(e, 1)
    /\ e.op = "Input" =>
          n.code[WriteAddress(e, 1) + 1] = last.input[e.inputp + 1]
    /\ e.op = "Add" =>
          n.code[WriteAddress(e, 3) + 1] = Resolved(e, 1) + Resolved(e, 2)
    /\ e.op = "JumpIfTrue" =>
          n.ip = IF Resolved(e, 1) # 0 THEN Resolved(e, 2) ELSE e.ip + 3
    /\ IF e.op = "RelativeBaseOffset"
       THEN /\ n.relative_base = e.relative_base + Resolved(e, 1)
            /\ n.ip = e.ip + 2
       ELSE n.relative_base = e.relative_base

\* C27: a parameter that is read resolves to memory[v] (Position), v
\* (Immediate) or memory[v + relative_base] (Relative), one that is written
\* to the address v (Position) or v + relative_base (Relative);
\* relative_base is 0 in a fresh instance, is kept from call to call,
\* RelativeBaseOffset adds its operand to it and advances ip by 2, and no
\* other instruction changes it.
C27_ParametersResolveByMode ==
    variant = "day23" =>
        /\ \A k \in Completed : Resolves(last.log[k], last.log[k + 1])
        /\ last.before = "fresh" => last.pre.relative_base = 0
        /\ last.log # << >> =>
              last.log[1].relative_base = last.pre.relative_base
        /\ last.status \in {"halted", "suspended"} =>
              /\ relative_base = last.end.relative_base
              /\ last.end.relative_base =
                     last.log[Len(last.log)].relative_base

C27_Witness ==
    /\ variant = "day23"
    /\ program = << 109, 5, 203, 4, 204, 4, 99 >>
    /\ calls = 1
    /\ last.status = "halted"
    /\ last.input = << 8 >>
    /\ last.output = << 8 >>
    /\ last.end.relative_base = 5
    /\ last.end.code[10] = 8

\* what an instruction of three parameters stores, of its resolved operands
Result(op, p1, p2) ==
    CASE op = "Add" -> p1 + p2
      [] op = "Multiply" -> p1 * p2
      [] op = "LessThan" -> IF p1 < p2 THEN 1 ELSE 0
      [] op = "Equal" -> IF p1 = p2 THEN 1 ELSE 0

\* memory n is memory e with v stored at address a and nothing else changed:
\* the tape is at most extended, with zeros
StoredAt(e, n, a, v) ==
    /\ Len(n.code) >= Len(e.code)
    /\ a < Len(n.code)
    /\ \A b \in 0..(Len(n.code) - 1) :
          n.code[b + 1] = IF b = a THEN v ELSE Mem(e, b)

\* the effect of the instruction of entry e, n being the entry after it
StoresAndAdvances(e, n) ==
    /\ e.op \in ThreeParams =>
          /\ StoredAt(e, n, WriteAddress(e, 3),
                      Result(e.op, Resolved(e, 1), Resolved(e, 2)))
          /\ n.relative_base = e.relative_base
          /\ n.ip = e.ip + 4
          /\ n.inputp = e.inputp
          /\ n.nout = e.nout
    /\ e.op \in {"Input", "Output"} => n.ip = e.ip + 2

\* C28: Add, Multiply, LessThan and Equal store p1 + p2, p1 * p2, p1 < p2
\* and p1 = p2 (as 1 or 0) of their resolved operands at the resolved write
\* address, change no other cell and not relative_base, and advance ip by
\* 4; Input and Output advance ip by 2.  So 3,9,8,9,10,9,4,9,99,-1,8
\* outputs 1 on the input 8 and 0 on another input.
C28_StoresResultAdvancesFour ==
    variant = "day23" =>
        /\ \A k \in Completed : StoresAndAdvances(last.log[k], last.log[k + 1])
        /\ (/\ program = << 3, 9, 8, 9, 10, 9, 4, 9, 99, -1, 8 >>
            /\ calls = 1
            /\ last.input # << >>) =>
              /\ last.status = "halted"
              /\ last.output = << IF last.input[1] = 8 THEN 1 ELSE 0 >>

C28_Witness ==
    /\ variant = "day23"
    /\ program = << 3, 9, 8, 9, 10, 9, 4, 9, 99, -1, 8 >>
    /\ calls = 1
    /\ last.input = << 8 >>
    /\ last.output = << 1 >>
    /\ last.log[2].op = "Equal"
    /\ last.log[3].ip = 6
    /\ last.log[3].code[10] = 1

\* every cell entry e saw has its value in entry n, and relative_base is
\* the same: the tape is at most extended, with zeros
KeepsMemory(e, n) ==
    /\ Len(n.code) >= Len(e.code)
    /\ \A b \in 0..(Len(n.code) - 1) : n.code[b + 1] = Mem(e, b)
    /\ n.relative_base = e.relative_base

\* the effect of a jump or an Output, n being the entry after e
JumpsOrKeeps(e, n) ==
    /\ e.op = "JumpIfTrue" =>
          n.ip = IF Resolved(e, 1) # 0 THEN Resolved(e, 2) ELSE e.ip + 3
    /\ e.op = "JumpIfFalse" =>
          n.ip = IF Resolved(e, 1) = 0 THEN Resolved(e, 2) ELSE e.ip + 3
    /\ e.op \in {"JumpIfTrue", "JumpIfFalse", "Output"} => KeepsMemory(e, n)
    /\ e.op \in {"JumpIfTrue", "JumpIfFalse"} =>
          n.nout = e.nout /\ n.inputp = e.inputp

Jumped(op, taken) ==
    \E k \in Completed :
        /\ last.log[k].op = op
        /\ (last.log[k + 1].ip # last.log[k].ip + 3) = taken

\* C29: JumpIfTrue sets ip to p2 when p1 is not 0 and to ip + 3 otherwise,
\* JumpIfFalse to p2 when p1 is 0 and to ip + 3 otherwise; neither jump,
\* nor Output, changes the value of a cell or relative_base.
C29_JumpsSetIpOnly ==
    variant = "day23" =>
        \A k \in Completed : JumpsOrKeeps(last.log[k], last.log[k + 1])

C29_Witness ==
    /\ variant = "day23"
    /\ program = << 3, 12, 6, 12, 15, 1, 13, 14, 13, 4, 13, 99, -1, 0, 1, 9 >>
    /\ calls = 1
    /\ last.input = << 0 >>
    /\ last.output = << 0 >>
    /\ last.status = "halted"
    /\ Jumped("JumpIfFalse", TRUE)
    /\ last.log[3].ip = 9

\* the addresses the instruction of entry e reads or writes through its
\* parameters
Accessed(e) ==
    { WriteAddress(e, i) :
        i \in { j \in 1..Arity(RustRem(CellAt(e), 100)) :
                  ModeOf(e, j) # "Immediate" } }

Highest(S) == CHOOSE x \in S : \A y \in S : y <= x

\* the tape length after the accesses of entry e: reaching one past the
\* highest address accessed, and never shorter than before
Extent(e) ==
    IF Accessed(e) = { } \/ Highest(Accessed(e)) < Len(e.code)
    THEN Len(e.code)
    ELSE Highest(Accessed(e)) + 1

\* the accesses of the instruction of entry e, n being the entry after it
AccessesGrow(e, n) ==
    /\ Len(n.code) = Extent(e)
    /\ e.op \in {"Output", "JumpIfTrue", "JumpIfFalse", "RelativeBaseOffset"} =>
          \A b \in 0..(Len(n.code) - 1) : n.code[b + 1] = Mem(e, b)
    /\ (e.op = "Output" /\ ModeOf(e, 1) # "Immediate"
          /\ WriteAddress(e, 1) >= Len(e.code)) =>
          last.output[n.nout] = 0
    /\ e.op = "Input" =>
          StoredAt(e, n, WriteAddress(e, 1), last.input[e.inputp + 1])
    /\ e.op \in ThreeParams =>
          StoredAt(e, n, WriteAddress(e, 3), n.code[WriteAddress(e, 3) + 1])

\* C30: a read or a write at an address at or past the end of the tape
\* extends the tape with zeros to that address + 1 (the read returns 0,
\* the write stores its value there) and leaves the cells there were as
\* they were; an access below the length leaves the length as it was; a
\* read changes no cell.
C30_AccessGrowsWithZeros ==
    variant = "day23" =>
        \A k \in Completed : AccessesGrow(last.log[k], last.log[k + 1])

C30_Witness ==
    /\ variant = "day23"
    /\ program = << 4, 5, 3, 8, 99 >>
    /\ calls = 1
    /\ last.input = << 8 >>
    /\ last.status = "halted"
    /\ last.output = << 0 >>
    /\ Len(last.log[2].code) = 6
    /\ last.end.code = << 4, 5, 3, 8, 99, 0, 0, 0, 8 >>

(***************************************************************************)
(* Addresses, tape length and decode errors (day23).                       *)
(***************************************************************************)

\* the first parameter of the instruction of entry e, the first one the
\* instruction resolves, lies on the tape and resolves to a negative
\* address
FirstResolvesNegative(e) ==
    /\ e.ip >= 0
    /\ e.ip + 1 < Len(e.code)
    /\ Opcode(CellAt(e)).op \notin {"InvalidOpcode", "Halt"}
    /\ \/ ModeOf(e, 1) = "Position" /\ Raw(e, 1) < 0
       \/ ModeOf(e, 1) = "Relative" /\ Raw(e, 1) + e.relative_base < 0

\* C31: an instruction whose parameter resolves to a negative address is
\* trapped: it is the last one of its call and the call gives its caller an
\* error; the process does not go on to use the address and fault on it.
C31_NegativeAddressTrapped ==
    variant = "day23" =>
        \A k \in Iterations :
            (FirstResolvesNegative(last.log[k]) /\ ~Starved(k)) =>
                /\ k = Len(last.log)
                /\ last.status \in Errs

\* the call of the record returned to its caller, with a result or an error
CameBack == last.status \in {"halted", "suspended"} \cup Errs

\* C32: the tape of an instance never gets shorter: not from one
\* instruction of a call to the next, not from the entry of a call to its
\* return, not from one call to the next, so it is never shorter than the
\* program loaded.
C32_TapeNeverShrinks ==
    /\ [](variant = "day23" =>
            /\ \A k \in Completed :
                  Len(last.log[k + 1].code) >= Len(last.log[k].code)
            /\ last.log # << >> =>
                  /\ last.log[1].code = last.pre.code
                  /\ CameBack =>
                        Len(last.end.code) >=
                            Len(last.log[Len(last.log)].code)
            /\ Len(last.pre.code) >= Len(program) \/ last.status = "fresh"
            /\ CameBack => code = last.end.code
            /\ Len(code) >= Len(program))
    /\ [][(variant = "day23" /\ last'.status \in {"halted", "suspended"} \cup Errs) =>
              /\ last'.pre.code = code
              /\ Len(code') >= Len(code)]_vars

C32_Witness ==
    /\ variant = "day23"
    /\ calls = 2
    /\ last.status = "halted"
    /\ last.before = "suspended"
    /\ Len(last.pre.code) > Len(program)
    /\ Len(code) > Len(last.pre.code)

\* C33: run gives its caller two kinds of decode error: InvalidOpcode for a
\* value whose opcode is not recognized, InvalidParameterMode for a
\* recognized opcode with a mode digit outside 0..2; a bad mode digit is not
\* given as InvalidOpcode.
C33_TwoKindsOfDecodeError ==
    variant = "day23" =>
        \A k \in Iterations :
            /\ (last.log[k].ip >= 0 /\ BadOpcodeValue(CellAt(last.log[k]))) =>
                  last.status = "InvalidOpcode"
            /\ (last.log[k].ip >= 0 /\ BadModeDigit(CellAt(last.log[k]))) =>
                  last.status = "InvalidParameterMode"

(***************************************************************************)
(* The rounds of the network and its NAT.                                  *)
(***************************************************************************)

\* C34: in a round of the network every computer has its turn and is run in
\* it: on the contents of its queue when there are any, on the single value
\* -1 otherwise.
C34_EveryComputerRunEachRound ==
    [][(InRound /\ idx' = idx + 1) =>
          /\ last'.input = Fed(queues[idx + 1])
          /\ last'.pre = computers[idx + 1]
          /\ given'[idx + 1] = given[idx + 1] \o Fed(queues[idx + 1])]_vars

\* C35: when the NAT acts on the idle network, sending its packet to
\* computer 0 or ending the simulation, no queue holds a value: nothing a
\* computer has sent is still to be delivered.
C35_NatActsOnEmptyQueues ==
    (AfterRound /\ AllIdle) => \A i \in 1..COMPUTERS : queues[i] = << >>

\* C36: every packet the NAT sends to computer 0 is one a computer has
\* sent to address 255 before; while no packet has been sent to address 255
\* the NAT sends nothing and no y is reported.
C36_NatSendsOnlyWhatItHeard ==
    main = "day23" =>
        /\ \A k \in 1..Len(woken) :
              \E j \in 1..Len(heard) : heard[j] = woken[k]
        /\ heard = << >> => printed = << >>

\* C37: routing what a run call of the network returned does not fault,
\* whatever the length of the output: a call that came back with a result
\* does not end main in a panic.
C37_RoutingNeverFaults ==
    (main = "day23" /\ last.status \in {"halted", "suspended"}) =>
        outcome # "panic"

\* C38: driving the amplifiers does not fault on an empty output: a run call
\* of the ring or of the pipeline that came back with a result and without an
\* output value does not end main in a panic.
C38_EmptyOutputTolerated ==
    (/\ main \in {"day07p2", "day07p1"}
     /\ last.status \in {"halted", "suspended"}
     /\ last.output = << >>) => outcome # "panic"

RECURSIVE Factorial(_)
Factorial(n) == IF n <= 1 THEN 1 ELSE n * Factorial(n - 1)

\* the five phase settings of the source file the iterator is of
FiveSettings == IF variant = "day07p2" THEN 5..9 ELSE 0..4

\* item holds each of the settings exactly once
IsPermutation(item, settings) ==
    /\ Len(item) = Cardinality(settings)
    /\ { item[k] : k \in 1..Len(item) } = settings

\* C39: the PhaseSettings iterator, consumed from permutations() until its
\* first None, yields every permutation of the five phase settings exactly
\* once: each item holds each of the five settings exactly once, the items
\* are pairwise distinct, and when None comes there have been 5! = 120.
C39_YieldsEveryPermutationOnce ==
    /\ \A k \in 1..Len(yielded) : IsPermutation(yielded[k], FiveSettings)
    /\ \A j \in 1..Len(yielded) : \A k \in 1..Len(yielded) :
           j < k => yielded[j] # yielded[k]
    /\ outcome = "done" => Len(yielded) = Factorial(Cardinality(FiveSettings))

\* the iterator of day07/part2 has returned None after 120 items, the last
\* of which is not the arrangement it started from
C39_Witness ==
    /\ main = "none"
    /\ variant = "day07p2"
    /\ outcome = "done"
    /\ Len(yielded) = 120
    /\ yielded[1] = << 5, 6, 7, 8, 9 >>
    /\ yielded[120] # yielded[1]

====
